---- MODULE Spec2Model ----
(***************************************************************************)
(* A model of the CAN dispatch layer (src/src/protocols/can.cpp) and of    *)
(* the UDS client built on it (src/src/diagnostics/uds.cpp).               *)
(*                                                                         *)
(* The dispatch thread of can.cpp receives its frames from the bus; the    *)
(* source stands in for the device read with one hard-coded frame          *)
(* (can.cpp:176).  The model takes the received frame as an input drawn    *)
(* from a small set that contains that frame.                              *)
(*                                                                         *)
(* Every critical section of the source (a lock_guard / unique_lock scope) *)
(* is one atomic step; a caller inside sendRequest moves through the       *)
(* positions "call" -> "send" -> "wait" -> "idle".                         *)
(*                                                                         *)
(* The flash layer (src/unnamed/part_008) is modelled on top of it:        *)
(* FlashManager::programFlash as a sequence of UDS calls, one step per     *)
(* call, and FlashFile's parsers and validate() as operators on files      *)
(* given as sequences of lines of characters.                              *)
(***************************************************************************)
EXTENDS Integers, Sequences, FiniteSets, TLC

(***************************************************************************)
(* Bounds of the model.                                                    *)
(***************************************************************************)
MaxCalls == 2      \* operations one caller thread starts
MaxFrames == 2     \* frames the dispatch thread receives
MaxSessionCalls == 2    \* the same two bounds in SpecSession
MaxSessionFrames == 2
MaxSecurityCalls == 3   \* and in SpecSecurity
MaxSecurityFrames == 3
MaxClientCalls == 1     \* and in SpecClients
MaxClientFrames == 2
MaxAsync == 1      \* sendRequestAsync calls issued
MaxFilters == 1    \* filters installed at one time
MaxFlashFrames == 3     \* frames the dispatch thread receives in SpecFlash
MaxFlashRuns == 1       \* programFlash calls in SpecFlash
MaxTransferRuns == 1    \* programFlash calls in SpecTransfer
MaxCanFrames == 2       \* frames delivered to the handler in SpecFilter
MaxSent == 2            \* frames CANProtocol::sendMessage accepts in SpecSend
MaxRecords == 3         \* lines of a flash file in SpecParse
MaxPoolTasks == 2       \* ThreadPool::enqueue calls in SpecPool
MaxStageRuns == 1       \* programFlash calls in SpecStages
MaxObdCalls == 2        \* getSupportedPIDs / readParameter calls in SpecOBD
MaxObdShutdowns == 1    \* OBDClient::shutdown calls in SpecOBD
MaxObdFrames == 2       \* frames the dispatch thread receives in SpecOBD
MaxObdStarts == 2       \* OBDClient::startMonitoring calls in SpecMonitor
MaxObdStops == 1        \* OBDClient::stopMonitoring calls in SpecMonitor
MaxObdCycles == 1       \* cycles of the OBD monitoring worker in SpecMonitor
MaxOverlapCalls == 1    \* calls one thread makes in SpecOverlap
MaxOverlapFrames == 2   \* frames the dispatch thread receives in SpecOverlap
MaxLiveCalls == 1       \* calls the application thread makes in SpecLive
MaxLiveFrames == 1      \* frames the dispatch thread receives in SpecLive
MaxChainCalls == 1      \* getSupportedPIDs calls in SpecChain
MaxChainFrames == 3     \* frames the dispatch thread receives in SpecChain
MaxHexRecords == 4      \* records of an Intel HEX file in SpecHex
MaxTesterCalls == 2     \* calls each application thread makes in SpecTester
MaxTesterFrames == 1    \* frames the dispatch thread receives in SpecTester

(***************************************************************************)
(* Program constants.                                                      *)
(***************************************************************************)
NEGATIVE_RESPONSE_SID == 127            \* 0x7F
POSITIVE_RESPONSE_MIN == 64             \* 0x40
POSITIVE_RESPONSE_MAX == 126            \* 0x7E
POSITIVE_RESPONSE_OFFSET == 64          \* 0x40

DIAGNOSTIC_SESSION_CONTROL == 16        \* 0x10
ECU_RESET == 17                         \* 0x11
READ_DATA_BY_IDENTIFIER == 34           \* 0x22
TESTER_PRESENT == 62                    \* 0x3E
SECURITY_ACCESS == 39                   \* 0x27
REQUEST_DOWNLOAD == 52                  \* 0x34
TRANSFER_DATA == 54                     \* 0x36
REQUEST_TRANSFER_EXIT == 55             \* 0x37

DEFAULT == 1
PROGRAMMING == 2
EXTENDED_DIAGNOSTIC == 3

GENERAL_REJECT == 16                    \* 0x10
CONDITIONS_NOT_CORRECT == 34            \* 0x22
SECURITY_ACCESS_DENIED == 51            \* 0x33
RESPONSE_PENDING == 120                 \* 0x78

CAN_MAX_STD_ID == 2047                  \* 0x7FF
CAN_MAX_EXT_ID == 536870911             \* 0x1FFFFFFF
CAN_MAX_DATA == 8
DEFAULT_BAUD == 500000
DEFAULT_REQUEST_ID == 2016              \* 0x7E0
DEFAULT_RESPONSE_ID == 2024             \* 0x7E8
DEFAULT_RESET_TYPE == 1
DEFAULT_BLOCK_SIZE == 256               \* FlashConfig::blockSize
DEFAULT_SECURITY_LEVEL == 1             \* FlashConfig::securityLevel
UINT8_MOD == 256                        \* values of a uint8_t
UINT16_MOD == 65536                     \* values of a uint16_t
CHAR_COLON == 16                        \* ':' (the characters 0..15 are the hex digits)
CHAR_S == 17                            \* 'S'
CHAR_NEWLINE == 18                      \* the line separator of std::getline
INTEL_MIN_LINE == 11                    \* shortest Intel HEX line accepted
CHAR_P == 19                            \* 'P'
CHAR_U == 20                            \* 'U' ('B' and 'C' are the hex digits 11, 12)
DTC_LENGTH == 5                         \* characters of a DTC string
DTC_NUMBER_MOD == 16384                 \* 0x3FFF + 1: the number field of a DTC pair
DTC_WIDTH == 4                          \* std::setw(4)

CURRENT_DATA == 1                       \* OBDMode::CURRENT_DATA
CURRENT_DATA_RESPONSE == 65             \* 0x41
OBD_POSITIVE_MIN == 64                  \* 0x40
OBD_REQUEST_ID == 2015                  \* 0x7DF
OBD_RESPONSE_ID == 2024                 \* 0x7E8
SUPPORTED_PIDS_01_20 == 0
ENGINE_LOAD == 4
COOLANT_TEMP == 5
FUEL_PRESSURE == 10
INTAKE_MANIFOLD_PRESSURE == 11
ENGINE_RPM == 12
VEHICLE_SPEED == 13
TIMING_ADVANCE == 14
INTAKE_AIR_TEMP == 15
MAF_AIRFLOW_RATE == 16
THROTTLE_POSITION == 17
RUNTIME_SINCE_ENGINE_START == 31
SUPPORTED_PIDS_21_40 == 32
DISTANCE_WITH_MIL_ON == 33
FUEL_TANK_LEVEL == 47
DISTANCE_SINCE_CODES_CLEARED == 49
ABSOLUTE_BAROMETRIC_PRESSURE == 51
SUPPORTED_PIDS_41_60 == 64

(***************************************************************************)
(* The objects of a run: two UDS clients that share one CANProtocol, and   *)
(* two threads that call into them (application threads, or workers of the *)
(* global thread pool running a sendRequestAsync task).                    *)
(***************************************************************************)
Clients == {1, 2}
ObdClient == 3          \* the OBDClient, as the owner of the CAN callback
ObdCallers == {1, 2}    \* application threads that call into the OBDClient
ObdWorkers == {3, 4}    \* threads that startMonitoring creates
ObdThreads == ObdCallers \cup ObdWorkers
PoolThreads == {1, 2}   \* the worker threads of a ThreadPool
StopCallers == {1, 2}   \* the threads that may call ThreadPool::stop
Threads == {1, 2}
AppThreads == {1}       \* a thread of the application
PoolWorkers == {2}      \* a worker of the global thread pool
NoClient == 0

\* UDSConfig of client c: the defaults for client 1, the next id pair for 2.
RequestId(c) == DEFAULT_REQUEST_ID + (c - 1)
ResponseId(c) == DEFAULT_RESPONSE_ID + (c - 1)

\* What an uninitialized UDSService member may hold (UDSMessage() = default
\* leaves `service` indeterminate).
Indeterminate == {0, DIAGNOSTIC_SESSION_CONTROL}

(***************************************************************************)
(* Bit operations on naturals.                                             *)
(***************************************************************************)
RECURSIVE BitAnd(_, _)
BitAnd(a, b) ==
    IF a = 0 \/ b = 0 THEN 0
    ELSE (IF a % 2 = 1 /\ b % 2 = 1 THEN 1 ELSE 0) + 2 * BitAnd(a \div 2, b \div 2)

(***************************************************************************)
(* CAN frames and filters.                                                 *)
(***************************************************************************)
CANMessage(id, data) == [id |-> id, data |-> data, extended |-> FALSE]

CANMessage_isValid(msg) ==
    /\ IF msg.extended THEN msg.id <= CAN_MAX_EXT_ID ELSE msg.id <= CAN_MAX_STD_ID
    /\ Len(msg.data) <= CAN_MAX_DATA

\* CANFilter::matches without its check of the frame kind.
CANFilter_matches_anyKind(filter, message) ==
    LET matches == BitAnd(message.id, filter.mask) = BitAnd(filter.id, filter.mask)
    IN  IF filter.passThrough THEN matches ELSE ~matches

CANFilter_matches(filter, message) ==
    IF filter.extended # message.extended THEN FALSE
    ELSE LET matches == BitAnd(message.id, filter.mask) = BitAnd(filter.id, filter.mask)
         IN  IF filter.passThrough THEN matches ELSE ~matches

\* The filter loop of the dispatch thread.
PassFilter(fs, msg) ==
    Len(fs) = 0 \/ \E i \in 1..Len(fs) : CANFilter_matches(fs[i], msg)

isValidCANBaudRate(baudRate) ==
    baudRate \in {10000, 20000, 50000, 100000, 125000, 250000, 500000, 800000, 1000000}

(***************************************************************************)
(* UDS messages.                                                           *)
(***************************************************************************)
\* UDSMessage(): every member with an initializer gets it; `service` has none.
UDSMessage_default(indet) ==
    [service |-> indet, data |-> <<>>, isResponse |-> FALSE,
     isNegativeResponse |-> FALSE, negativeResponseCode |-> GENERAL_REJECT]

\* UDSMessage(svc, payload)
UDSMessage(svc, payload) ==
    [service |-> svc, data |-> payload, isResponse |-> FALSE,
     isNegativeResponse |-> FALSE, negativeResponseCode |-> GENERAL_REJECT]

toCANMessage(request, requestId) ==
    CANMessage(requestId, <<request.service>> \o request.data)

fromCANMessage(canMsg, indet) ==
    LET d == canMsg.data
        m == UDSMessage_default(indet)
    IN  IF Len(d) = 0 THEN m
        ELSE IF d[1] = NEGATIVE_RESPONSE_SID
        THEN [m EXCEPT !.isNegativeResponse = TRUE,
                       !.service = IF Len(d) >= 3 THEN d[2] ELSE indet,
                       !.negativeResponseCode =
                           IF Len(d) >= 3 THEN d[3] ELSE GENERAL_REJECT,
                       !.data = IF Len(d) > 3 THEN SubSeq(d, 4, Len(d)) ELSE <<>>]
        ELSE IF d[1] >= POSITIVE_RESPONSE_MIN /\ d[1] <= POSITIVE_RESPONSE_MAX
        THEN [m EXCEPT !.isResponse = TRUE,
                       !.service = d[1] - POSITIVE_RESPONSE_OFFSET,
                       !.data = IF Len(d) > 1 THEN Tail(d) ELSE <<>>]
        ELSE [m EXCEPT !.service = d[1],
                       !.data = IF Len(d) > 1 THEN Tail(d) ELSE <<>>]

\* The error message built on the three failing paths of sendRequest.
ErrorResponse(nrc, indet) ==
    [UDSMessage_default(indet) EXCEPT !.isNegativeResponse = TRUE,
                                      !.negativeResponseCode = nrc]

Min(a, b) == IF a < b THEN a ELSE b

(***************************************************************************)
(* FlashFile.  A text file is the sequence of its lines and a line is the   *)
(* sequence of its characters: 0..15 for the hex digits, CHAR_COLON and     *)
(* CHAR_S for the two record marks.  A 32-bit address is the pair of its    *)
(* upper and lower 16 bits, so that sums wrap where uint32_t wraps.         *)
(***************************************************************************)
U32(hi, lo) == <<hi, lo>>

\* a + n as a 64-bit sum: <<carry out of bit 31, upper half, lower half>>.
Add64(a, n) ==
    LET lo == a[2] + n
        hi == a[1] + (lo \div UINT16_MOD)
    IN  <<hi \div UINT16_MOD, hi % UINT16_MOD, lo % UINT16_MOD>>

\* static_cast<uint32_t>(a + n)
Add32(a, n) == <<Add64(a, n)[2], Add64(a, n)[3]>>

\* a - 1 in uint32_t
Dec32(a) ==
    IF a[2] > 0 THEN <<a[1], a[2] - 1>>
    ELSE IF a[1] > 0 THEN <<a[1] - 1, UINT16_MOD - 1>>
    ELSE <<UINT16_MOD - 1, UINT16_MOD - 1>>

\* a <= b on uint32_t
Le32(a, b) == a[1] < b[1] \/ (a[1] = b[1] /\ a[2] <= b[2])

\* The value a conversion yields when it throws.
Thrown == -1

\* std::stoul(str, nullptr, 16) on the leading hex digits of str.
RECURSIVE stoulDigits(_, _)
stoulDigits(str, acc) ==
    IF str = <<>> \/ Head(str) > 15 THEN acc
    ELSE stoulDigits(Tail(str), acc * 16 + Head(str))

\* std::stoul(line.substr(pos, n), nullptr, 16): substr throws when pos is
\* past the end, stoul throws when no digit can be converted.
stoul(line, pos, n) ==
    IF pos > Len(line) THEN Thrown
    ELSE LET str == SubSeq(line, pos + 1, Min(pos + n, Len(line)))
         IN  IF str = <<>> \/ str[1] > 15 THEN Thrown ELSE stoulDigits(str, 0)

\* The loop that reads `count` data bytes of a line from character `start`:
\* the bytes read, with Thrown appended if a conversion threw.
RECURSIVE readDataBytes(_, _, _, _)
readDataBytes(line, start, count, i) ==
    IF i >= count THEN <<>>
    ELSE LET b == stoul(line, start + i * 2, 2)
         IN  IF b = Thrown THEN <<Thrown>>
             ELSE <<b % UINT8_MOD>> \o readDataBytes(line, start, count, i + 1)

FlashBlock(address, data) == [address |-> address, data |-> data]

\* parseIntelHex: the block pushed from currentAddress / currentData.
pushCurrent(st) ==
    IF st.currentData # <<>>
    THEN Append(st.blocks, FlashBlock(st.currentAddress, st.currentData))
    ELSE st.blocks

\* parseIntelHex: one iteration of its line loop.  `go` tells whether the
\* loop continues, returns true or returns false.
parseIntelHexLine(line, st) ==
    IF line = <<>> \/ line[1] # CHAR_COLON THEN [st EXCEPT !.go = "continue"]
    ELSE IF Len(line) < INTEL_MIN_LINE THEN [st EXCEPT !.go = "false"]
    ELSE
    LET byteCount == stoul(line, 1, 2)
        address == stoul(line, 3, 4)
        recordType == stoul(line, 7, 2)
    IN  IF byteCount = Thrown \/ address = Thrown \/ recordType = Thrown
        THEN [st EXCEPT !.go = "false"]
        ELSE CASE recordType = 0 ->
                 LET fullAddress == Add32(st.baseAddress, address)
                     fresh == \/ st.currentData = <<>>
                              \/ <<0, fullAddress[1], fullAddress[2]>> #
                                     Add64(st.currentAddress, Len(st.currentData))
                     st1 == IF fresh
                            THEN [st EXCEPT !.blocks = pushCurrent(st),
                                            !.currentAddress = fullAddress,
                                            !.currentData = <<>>]
                            ELSE st
                     bytes == readDataBytes(line, 9, byteCount, 0)
                 IN  IF bytes # <<>> /\ bytes[Len(bytes)] = Thrown
                     THEN [st1 EXCEPT !.go = "false"]
                     ELSE [st1 EXCEPT !.go = "continue",
                                      !.currentData = @ \o bytes]
               [] recordType = 1 ->
                 [st EXCEPT !.go = "true", !.blocks = pushCurrent(st)]
               [] recordType = 4 ->
                 IF byteCount = 2
                 THEN LET upperAddress == stoul(line, 9, 4)
                      IN  IF upperAddress = Thrown THEN [st EXCEPT !.go = "false"]
                          ELSE [st EXCEPT !.go = "continue",
                                          !.baseAddress = U32(upperAddress % UINT16_MOD, 0)]
                 ELSE [st EXCEPT !.go = "continue"]
               [] OTHER -> [st EXCEPT !.go = "continue"]

RECURSIVE parseIntelHexLoop(_, _)
parseIntelHexLoop(lines, st) ==
    IF lines = <<>> THEN [ok |-> st.blocks # <<>>, blocks |-> st.blocks]
    ELSE LET st1 == parseIntelHexLine(Head(lines), st)
         IN  CASE st1.go = "true" -> [ok |-> TRUE, blocks |-> st1.blocks]
               [] st1.go = "false" -> [ok |-> FALSE, blocks |-> st1.blocks]
               [] OTHER -> parseIntelHexLoop(Tail(lines), st1)

\* FlashFile::parseIntelHex on a file whose blocks were cleared: its return
\* value and the blocks it leaves in the object.
parseIntelHex(lines) ==
    parseIntelHexLoop(lines, [go |-> "continue", baseAddress |-> U32(0, 0),
                              currentAddress |-> U32(0, 0), currentData |-> <<>>,
                              blocks |-> <<>>])

\* parseMotorolaS: address = (address << 8) | addrByte over the address bytes.
RECURSIVE readAddress(_, _, _, _)
readAddress(line, addressBytes, i, address) ==
    IF i >= addressBytes THEN address
    ELSE LET addrByte == stoul(line, 4 + i * 2, 2)
         IN  IF addrByte = Thrown THEN U32(Thrown, Thrown)
             ELSE readAddress(line, addressBytes, i + 1,
                      U32((address[1] * 256 + address[2] \div 256) % UINT16_MOD,
                          ((address[2] * 256) % UINT16_MOD) + (addrByte % UINT8_MOD)))

\* parseMotorolaS: one iteration of its line loop.
parseMotorolaSLine(line, st) ==
    IF line = <<>> \/ line[1] # CHAR_S THEN st
    ELSE IF Len(line) < 4 THEN st
    ELSE
    LET recordType == line[2]
        byteCount == stoul(line, 2, 2)
    IN  IF byteCount = Thrown THEN [st EXCEPT !.go = "false"]
        ELSE IF recordType \notin {1, 2, 3} THEN st
        ELSE LET addressBytes == recordType + 1
             IN  IF Len(line) < 4 + addressBytes * 2 THEN st
                 ELSE LET address == readAddress(line, addressBytes, 0, U32(0, 0))
                          dataBytes == (byteCount % UINT8_MOD) - addressBytes - 1
                          blockData == readDataBytes(line, 4 + addressBytes * 2,
                                                     dataBytes, 0)
                      IN  IF address = U32(Thrown, Thrown)
                          THEN [st EXCEPT !.go = "false"]
                          ELSE IF blockData # <<>> /\ blockData[Len(blockData)] = Thrown
                          THEN [st EXCEPT !.go = "false"]
                          ELSE IF blockData # <<>>
                          THEN [st EXCEPT !.blocks =
                                              Append(@, FlashBlock(address, blockData))]
                          ELSE st

RECURSIVE parseMotorolaSLoop(_, _)
parseMotorolaSLoop(lines, st) ==
    IF lines = <<>> THEN [ok |-> st.blocks # <<>>, blocks |-> st.blocks]
    ELSE LET st1 == parseMotorolaSLine(Head(lines), st)
         IN  IF st1.go = "false" THEN [ok |-> FALSE, blocks |-> st1.blocks]
             ELSE parseMotorolaSLoop(Tail(lines), st1)

\* FlashFile::parseMotorolaS
parseMotorolaS(lines) ==
    parseMotorolaSLoop(lines, [go |-> "continue", blocks |-> <<>>])

\* The bytes of the file: its lines, each ended by the separator.
RECURSIVE FileBytes(_)
FileBytes(lines) ==
    IF lines = <<>> THEN <<>>
    ELSE Head(lines) \o <<CHAR_NEWLINE>> \o FileBytes(Tail(lines))

\* FlashFile::parseBinary
parseBinary(lines) ==
    IF FileBytes(lines) = <<>> THEN [ok |-> FALSE, blocks |-> <<>>]
    ELSE [ok |-> TRUE, blocks |-> <<FlashBlock(U32(0, 0), FileBytes(lines))>>]

\* The switch of FlashFile::loadFromData.
parseAs(fmt, lines) ==
    CASE fmt = "INTEL_HEX" -> parseIntelHex(lines)
      [] fmt = "MOTOROLA_S_RECORD" -> parseMotorolaS(lines)
      [] fmt = "BINARY" -> parseBinary(lines)
      [] fmt = "ELF" -> parseBinary(lines)
      [] OTHER -> [ok |-> FALSE, blocks |-> <<>>]

\* The overlap test of FlashFile::validate on blocks b1 and b2.
validate_overlap(b1, b2) ==
    LET end1 == Dec32(Add32(b1.address, Len(b1.data)))
        start2 == b2.address
        end2 == Dec32(Add32(b2.address, Len(b2.data)))
        start1 == b1.address
    IN  Le32(start1, end2) /\ Le32(start2, end1)

\* FlashFile::validate
validate(blocks) ==
    IF blocks = <<>> THEN FALSE
    ELSE ~\E i \in 1..Len(blocks), j \in 1..Len(blocks) :
             i < j /\ validate_overlap(blocks[i], blocks[j])

\* FlashFile(): no blocks; nothing loaded or validated yet.
NoFile == [format |-> "BINARY", blocks |-> <<>>, input |-> <<>>,
           loadCalled |-> FALSE, loaded |-> FALSE,
           validateCalled |-> FALSE, valid |-> FALSE]

(***************************************************************************)
(* OBDDTC (src/unnamed/part_007:154-189).  A string is a sequence of       *)
(* characters: 0..15 are the characters '0'..'9', 'A'..'F', and CHAR_P,    *)
(* CHAR_U the two category letters that are no hex digit.                  *)
(***************************************************************************)
\* operator<< of an unsigned number: its decimal digits, most significant
\* first.
RECURSIVE decimalDigits(_)
decimalDigits(number) ==
    IF number < 10 THEN <<number>>
    ELSE Append(decimalDigits(number \div 10), number % 10)

\* std::setw(width) << std::setfill('0') << number: padded on the left up to
\* the width, never truncated.
RECURSIVE setw(_, _)
setw(width, digits) ==
    IF Len(digits) >= width THEN digits ELSE setw(width, <<0>> \o digits)

\* The switch on bits 15:14.
categoryOf(dtcBytes) ==
    CASE (dtcBytes \div DTC_NUMBER_MOD) % 4 = 0 -> CHAR_P
      [] (dtcBytes \div DTC_NUMBER_MOD) % 4 = 1 -> 12
      [] (dtcBytes \div DTC_NUMBER_MOD) % 4 = 2 -> 11
      [] OTHER -> CHAR_U

bytesToDTCString(dtcBytes) ==
    LET number == dtcBytes % DTC_NUMBER_MOD
    IN  <<categoryOf(dtcBytes)>> \o setw(DTC_WIDTH, decimalDigits(number))

\* std::stoul(str, nullptr, 10): the value of the longest prefix of decimal
\* digits; it throws when the string does not start with one.
RECURSIVE stoul10Digits(_, _)
stoul10Digits(str, acc) ==
    IF str = <<>> \/ Head(str) > 9 THEN acc
    ELSE stoul10Digits(Tail(str), acc * 10 + Head(str))

stoul10(str) ==
    IF str = <<>> \/ str[1] > 9 THEN Thrown ELSE stoul10Digits(str, 0)

dtcStringToBytes(dtcString) ==
    IF Len(dtcString) # DTC_LENGTH THEN 0
    ELSE IF dtcString[1] \notin {CHAR_P, 12, 11, CHAR_U} THEN 0
    ELSE LET categoryBits == CASE dtcString[1] = CHAR_P -> 0
                               [] dtcString[1] = 12 -> 1
                               [] dtcString[1] = 11 -> 2
                               [] OTHER -> 3
             number == stoul10(Tail(dtcString))
         IN  IF number = Thrown THEN 0
             ELSE (categoryBits * DTC_NUMBER_MOD
                   + ((number % UINT16_MOD) % DTC_NUMBER_MOD)) % UINT16_MOD

(***************************************************************************)
(* OBDParameter and the supported-PID bit maps (part_007:205-310,          *)
(* 825-883).  A double is the exact fraction num / den.                    *)
(***************************************************************************)
Ratio(num, den) == [num |-> num, den |-> den]

getPIDUnit(pid) ==
    CASE pid \in {ENGINE_LOAD, THROTTLE_POSITION, FUEL_TANK_LEVEL} -> "%"
      [] pid \in {COOLANT_TEMP, INTAKE_AIR_TEMP} -> "degC"
      [] pid = ENGINE_RPM -> "RPM"
      [] pid = VEHICLE_SPEED -> "km/h"
      [] pid \in {FUEL_PRESSURE, INTAKE_MANIFOLD_PRESSURE,
                  ABSOLUTE_BAROMETRIC_PRESSURE} -> "kPa"
      [] pid = TIMING_ADVANCE -> "deg"
      [] pid = MAF_AIRFLOW_RATE -> "g/s"
      [] pid = RUNTIME_SINCE_ENGINE_START -> "s"
      [] pid \in {DISTANCE_WITH_MIL_ON, DISTANCE_SINCE_CODES_CLEARED} -> "km"
      [] OTHER -> ""

\* OBDParameter param(pid, getPIDDescription(pid), getPIDUnit(pid))
OBDParameter(pid) ==
    [pid |-> pid, rawData |-> <<>>, value |-> Ratio(0, 1), unit |-> getPIDUnit(pid)]

calculateValue(param) ==
    LET rawData == param.rawData
        Set(value, unit) == [param EXCEPT !.value = value, !.unit = unit]
        pid == param.pid
    IN  IF rawData = <<>> THEN param
        ELSE CASE pid \in {ENGINE_LOAD, THROTTLE_POSITION, FUEL_TANK_LEVEL} ->
                    Set(Ratio(rawData[1] * 100, 255), "%")
               [] pid \in {COOLANT_TEMP, INTAKE_AIR_TEMP} ->
                    Set(Ratio(rawData[1] - 40, 1), "degC")
               [] pid = ENGINE_RPM ->
                    IF Len(rawData) >= 2
                    THEN Set(Ratio(rawData[1] * 256 + rawData[2], 4), "RPM")
                    ELSE param
               [] pid = VEHICLE_SPEED -> Set(Ratio(rawData[1], 1), "km/h")
               [] pid = FUEL_PRESSURE -> Set(Ratio(rawData[1] * 3, 1), "kPa")
               [] pid \in {INTAKE_MANIFOLD_PRESSURE, ABSOLUTE_BAROMETRIC_PRESSURE} ->
                    Set(Ratio(rawData[1], 1), "kPa")
               [] pid = TIMING_ADVANCE -> Set(Ratio(rawData[1] - 128, 2), "deg")
               [] pid = MAF_AIRFLOW_RATE ->
                    IF Len(rawData) >= 2
                    THEN Set(Ratio(rawData[1] * 256 + rawData[2], 100), "g/s")
                    ELSE param
               [] pid = RUNTIME_SINCE_ENGINE_START ->
                    IF Len(rawData) >= 2
                    THEN Set(Ratio(rawData[1] * 256 + rawData[2], 1), "s")
                    ELSE param
               [] pid \in {DISTANCE_WITH_MIL_ON, DISTANCE_SINCE_CODES_CLEARED} ->
                    IF Len(rawData) >= 2
                    THEN Set(Ratio(rawData[1] * 256 + rawData[2], 1), "km")
                    ELSE param
               [] OTHER -> Set(Ratio(rawData[1], 1), "raw")

\* parseSupportedPIDs(data, baseRange): the PIDs of the bits set, in order.
parseSupportedPIDs(data, baseRange) ==
    IF Len(data) # 4 THEN <<>>
    ELSE LET bitSet(k) == (data[(k \div 8) + 1] \div (2 ^ (7 - (k % 8)))) % 2 = 1
             RECURSIVE scan(_)
             scan(k) == IF k >= 32 THEN <<>>
                        ELSE (IF bitSet(k)
                              THEN <<(baseRange + k + 1) % UINT8_MOD>> ELSE <<>>)
                             \o scan(k + 1)
         IN  scan(0)

\* isPIDSupported(supportedPIDs, pid): uint8_t index arithmetic on the PID
\* value itself.
isPIDSupported(supportedPIDs, pid) ==
    IF Len(supportedPIDs) # 4 THEN FALSE
    ELSE LET pidValue == pid % UINT8_MOD
             byteIndex == pidValue \div 8
             bitIndex == 7 - (pidValue % 8)
         IN  IF byteIndex >= Len(supportedPIDs) THEN FALSE
             ELSE (supportedPIDs[byteIndex + 1] \div (2 ^ bitIndex)) % 2 # 0

\* The response of sendOBDRequest answers mode 01 for `pid` with at least
\* `size` bytes.
IsResponseFor(response, pid, size) ==
    /\ Len(response) >= size
    /\ response[1] = CURRENT_DATA_RESPONSE
    /\ response[2] = pid

\* readParameter, from the response of its request.
readParameter_result(pid, response) ==
    IF IsResponseFor(response, pid, 3)
    THEN calculateValue([OBDParameter(pid) EXCEPT
                            !.rawData = SubSeq(response, 3, Len(response))])
    ELSE OBDParameter(pid)

(***************************************************************************)
(* State.                                                                  *)
(***************************************************************************)
VARIABLES
    \* CANProtocol::Impl
    canInitialized,     \* initialized
    canBaud,            \* config.baudRate
    monitoring,         \* monitoring; the dispatch thread runs exactly while it is set
    monitorCallback,    \* the client whose handler monitorCallback invokes, or NoClient
    filters,            \* filters
    canStats,           \* stats
    \* UDSClient::Impl, one per client
    alive,              \* the UDSClient object exists (not yet destroyed)
    initialized,        \* initialized
    canProtocol,        \* canProtocol is set (non-null)
    currentSession,     \* currentSession
    responseReceived,   \* responseReceived
    pendingResponse,    \* pendingResponse
    stats,              \* stats
    lastError,          \* lastError
    \* caller threads
    pc,                 \* position of each thread
    call,               \* the operation a thread is inside
    ret,                \* what the thread's last operation returned
    ncalls,             \* operations the thread has completed
    \* global thread pool, as far as sendRequestAsync uses it
    tasks,              \* queued sendRequestAsync tasks
    asyncIssued,        \* sendRequestAsync calls made
    callbackCount,      \* completion callbacks invoked
    \* history
    initResult,         \* the return path the last UDSClient::initialize took
    shutdownInWait,     \* a shutdown ran while the thread waited for its response
    keyAccepted,        \* levels whose key was accepted since the last session change
    relocked,           \* levels accepted before the last session change, not since
    ub,                 \* the handler of a destroyed client was invoked
    dispatched,         \* the last frame the dispatch thread took, with its verdict
    sent,               \* the last CANProtocol::sendMessage call and its result
    \* flashing
    flash,              \* FlashManager::Impl and the position of programFlash
    flashFile,          \* the FlashFile object and the result of its last load
    \* OBD-II
    dtc,                \* the last OBDDTC conversion: its argument and its result
    \* ThreadPool
    threadPool,         \* a ThreadPool object, its workers and its callers
    obd                 \* OBDClient::Impl and the threads inside its methods

canVars == <<canInitialized, canBaud, monitoring, monitorCallback, filters, canStats>>
udsVars == <<alive, initialized, canProtocol, currentSession, responseReceived,
             pendingResponse, stats, lastError>>
thrVars == <<pc, call, ret, ncalls>>
poolVars == <<tasks, asyncIssued, callbackCount>>
histVars == <<initResult, shutdownInWait, keyAccepted, relocked, ub>>
canHist == <<dispatched, sent>>
flashVars == <<flash, flashFile>>
obdVars == <<dtc, threadPool, obd>>
baseVars == <<canVars, udsVars, thrVars, poolVars, histVars, canHist, flashVars>>
vars == <<canVars, udsVars, thrVars, poolVars, histVars, canHist, flashVars, obdVars>>

NoReq == UDSMessage(0, <<>>)
NoCall == [op |-> "none", client |-> NoClient, req |-> NoReq, arg |-> 0,
           key |-> <<>>, phase |-> 0, before |-> 0]
NoRet == [op |-> "none", client |-> NoClient, req |-> NoReq, arg |-> 0,
          before |-> 0, msg |-> NoReq, kind |-> "none", ok |-> FALSE, data |-> <<>>]

\* No frame dispatched yet, no sendMessage call made yet.
NoDispatch == [seen |-> FALSE, frame |-> CANMessage(0, <<>>), filters |-> <<>>,
               passed |-> FALSE]
CANStatistics == [messagesSent |-> 0, messagesReceived |-> 0, filtersApplied |-> 0]
NoSend == [called |-> FALSE, message |-> CANMessage(0, <<>>), result |-> FALSE,
           wasInitialized |-> FALSE, before |-> CANStatistics,
           after |-> CANStatistics]

\* No OBDDTC conversion made yet.  `str` is the argument of the last
\* dtcStringToBytes call, `bytes` its result or the argument of a
\* bytesToDTCString call, `decoded` the result of the last bytesToDTCString.
\* `bitmap`, `pid` and `supported` are the arguments and the result of the
\* last isPIDSupported call.
NoDTC == [pc |-> "idle", str |-> <<>>, bytes |-> 0, decoded |-> <<>>,
          bitmap |-> <<>>, pid |-> 0, supported |-> FALSE]

\* ThreadPool::ThreadPool(threads): the members after construction, every
\* worker at the condition wait of its loop.  `stopCall` is the position of
\* each thread that may call stop(); the fields below it are history: the
\* tasks enqueue accepted, how often each ran, the decrements of
\* activeTasks, the last enqueue call and the last getPendingTaskCount call.
ThreadPool ==
    [tasks |-> <<>>, stop_flag |-> FALSE, activeTasks |-> 0,
     workers |-> [w \in PoolThreads |-> [pc |-> "wait", task |-> 0]],
     stopCall |-> [t \in StopCallers |-> "idle"],
     accepted |-> 0,
     executed |-> [id \in 1..(MaxPoolTasks + 1) |-> 0],
     finished |-> 0,
     lastEnqueue |-> [called |-> FALSE, stopping |-> FALSE, threw |-> FALSE,
                      queued |-> 0],
     pendingCount |-> [called |-> FALSE, result |-> 0, accepted |-> 0,
                       executed |-> 0, finished |-> 0]]

\* A thread of the OBD model outside every OBDClient method: `op` is the
\* method it is in, `pid` the PID of its current request, `acc` what that
\* method has collected, `idx` the position in monitoringPIDs.  The other
\* fields are history: requestsSent and the state of the cache when the
\* method was entered, whether the client was initialized then, the frames
\* handed to onCANMessage while the thread waited, and what the last
\* completed method returned.
NoObdRet == [op |-> "none", pid |-> 0, param |-> OBDParameter(0), pids |-> <<>>,
             requests |-> 0, hist |-> "new", running |-> FALSE,
             delivered |-> <<>>, ok |-> FALSE]
ObdThread(at) ==
    [pc |-> at, op |-> "none", pid |-> 0, acc |-> <<>>, idx |-> 0,
     before |-> 0, hist |-> "new", running |-> FALSE, delivered |-> <<>>,
     ret |-> NoObdRet]

\* OBDClient::Impl after construction.  `monitoringThread` is the worker the
\* std::thread member refers to, or 0 when it is not joinable.  History:
\* `hist` follows the supported-PID cache through "new" -> "queried" ->
\* "shutdown" -> "restarted"; `calls`, `shutdowns` and `cycles` count the
\* calls made; `stopped` holds the workers that had been started and had
\* not exited when a stopMonitoring call returned; `lateCallback` is set
\* when one of them invokes the monitoring callback; `racing` is set while
\* two startMonitoring calls are about to assign monitoringThread;
\* `terminated` is set when std::terminate has been called.
OBDClient ==
    [initialized |-> FALSE, monitoring |-> FALSE, canProtocol |-> FALSE,
     monitoringPIDs |-> <<>>, monitoringCallback |-> FALSE, monitoringThread |-> 0,
     responseReceived |-> FALSE, pendingResponse |-> <<>>,
     supportedPIDs |-> <<>>, supportedPIDsCached |-> FALSE,
     stats |-> [requestsSent |-> 0, responsesReceived |-> 0, timeouts |-> 0,
                errors |-> 0],
     threads |-> [t \in ObdThreads |->
                     IF t \in ObdCallers THEN ObdThread("idle") ELSE ObdThread("none")],
     terminated |-> FALSE, racing |-> FALSE,
     hist |-> "new", calls |-> 0, shutdowns |-> 0, starts |-> 0, stops |-> 0,
     cycles |-> 0, callbacks |-> 0,
     stopped |-> {}, lateCallback |-> FALSE]

\* FlashConfig with its default member initializers.
FlashConfig(blockSize, verifyAfterWrite, securityKey) ==
    [blockSize |-> blockSize, verifyAfterWrite |-> verifyAfterWrite,
     eraseBeforeWrite |-> TRUE,
     securityLevel |-> DEFAULT_SECURITY_LEVEL, securityKey |-> securityKey,
     regions |-> <<>>]

\* FlashRegion, without its name and its block size.
FlashRegion(startAddress, endAddress, isProtected) ==
    [startAddress |-> startAddress, endAddress |-> endAddress,
     isProtected |-> isProtected]

\* FlashStatistics{}
FlashStatistics == [totalBlocks |-> 0, blocksWritten |-> 0, blocksFailed |-> 0,
                    totalBytes |-> 0, bytesWritten |-> 0]

\* FlashManager::Impl after construction, with no programFlash in progress.
\* `log` lists the requests programFlash has issued, in order.
NoFlash == [initialized |-> FALSE,
            config |-> FlashConfig(DEFAULT_BLOCK_SIZE, TRUE, <<>>),
            stats |-> FlashStatistics,
            udsClient |-> NoClient,
            pc |-> "idle", thread |-> 0, blocks |-> <<>>, i |-> 0, offset |-> 0,
            blockSequence |-> 1, seq |-> 0, chunkSize |-> 0,
            log |-> <<>>, replies |-> <<>>, error |-> "none", runs |-> 0]

Init ==
    /\ canInitialized = FALSE
    /\ canBaud = DEFAULT_BAUD
    /\ monitoring = FALSE
    /\ monitorCallback = NoClient
    /\ filters = <<>>
    /\ canStats = CANStatistics
    /\ alive = [c \in Clients |-> TRUE]
    /\ initialized = [c \in Clients |-> FALSE]
    /\ canProtocol = [c \in Clients |-> FALSE]
    /\ currentSession = [c \in Clients |-> DEFAULT]
    /\ responseReceived = [c \in Clients |-> FALSE]
    /\ pendingResponse = [c \in Clients |-> NoReq]
    /\ stats = [c \in Clients |-> [requestsSent |-> 0, responsesReceived |-> 0,
                                   negativeResponses |-> 0, timeouts |-> 0]]
    /\ lastError = [c \in Clients |-> [hasError |-> FALSE, errorCode |-> GENERAL_REJECT]]
    /\ pc = [t \in Threads |-> "idle"]
    /\ call = [t \in Threads |-> NoCall]
    /\ ret = [t \in Threads |-> NoRet]
    /\ ncalls = [t \in Threads |-> 0]
    /\ tasks = <<>>
    /\ asyncIssued = 0
    /\ callbackCount = 0
    /\ initResult = [c \in Clients |-> "none"]
    /\ shutdownInWait = [t \in Threads |-> FALSE]
    /\ keyAccepted = [c \in Clients |-> {}]
    /\ relocked = [c \in Clients |-> {}]
    /\ ub = "none"
    /\ dispatched = NoDispatch
    /\ sent = NoSend
    /\ flash = NoFlash
    /\ flashFile = NoFile
    /\ dtc = NoDTC
    /\ threadPool = ThreadPool
    /\ obd = OBDClient

(***************************************************************************)
(* CANProtocol.                                                            *)
(***************************************************************************)
CANProtocol_initialize(baudRate) ==
    /\ ub # "crashed"
    /\ UNCHANGED <<canHist, flashVars, obdVars>>
    /\ IF isValidCANBaudRate(baudRate)
       THEN /\ canBaud' = baudRate
            /\ canInitialized' = TRUE
       ELSE UNCHANGED <<canBaud, canInitialized>>
    /\ UNCHANGED <<monitoring, monitorCallback, filters, canStats>>
    /\ UNCHANGED <<udsVars, thrVars, poolVars, histVars>>

\* Impl::stopMonitoring clears the flag and joins the dispatch thread: when it
\* returns the thread has left its loop.
CANProtocol_shutdown ==
    /\ ub # "crashed"
    /\ UNCHANGED <<canHist, flashVars, obdVars>>
    /\ monitoring' = FALSE
    /\ canInitialized' = FALSE
    /\ UNCHANGED <<canBaud, monitorCallback, filters, canStats>>
    /\ UNCHANGED <<udsVars, thrVars, poolVars, histVars>>

CANProtocol_addFilter(filter) ==
    /\ ub # "crashed"
    /\ UNCHANGED <<canHist, flashVars, obdVars>>
    /\ Len(filters) < MaxFilters
    /\ filters' = Append(filters, filter)
    /\ UNCHANGED <<canInitialized, canBaud, monitoring, monitorCallback, canStats>>
    /\ UNCHANGED <<udsVars, thrVars, poolVars, histVars>>

CANProtocol_clearFilters ==
    /\ ub # "crashed"
    /\ UNCHANGED <<canHist, flashVars, obdVars>>
    /\ filters # <<>>
    /\ filters' = <<>>
    /\ UNCHANGED <<canInitialized, canBaud, monitoring, monitorCallback, canStats>>
    /\ UNCHANGED <<udsVars, thrVars, poolVars, histVars>>

\* UDSClient::Impl::onCANMessage of client c, as the next-state values of
\* <<responseReceived, pendingResponse>>.
onCANMessage(c, canMsg, indet) ==
    IF canMsg.id # ResponseId(c)
    THEN <<responseReceived, pendingResponse>>
    ELSE <<[responseReceived EXCEPT ![c] = TRUE],
           [pendingResponse EXCEPT ![c] = fromCANMessage(canMsg, indet)]>>

\* One iteration of Impl::monitoringLoop that received `frame` from the bus.
\* A callback that captured a destroyed client is a use after free: the build
\* either crashes or carries on with the write landing in freed memory.
monitoringLoop_iteration(frame, indet, outcome) ==
    /\ ub # "crashed"
    /\ UNCHANGED <<sent, flashVars, obdVars>>
    /\ monitoring
    /\ monitorCallback # NoClient
    /\ IF PassFilter(filters, frame)
       THEN /\ canStats' = [canStats EXCEPT !.messagesReceived = @ + 1,
                                            !.filtersApplied = @ + 1]
            /\ IF alive[monitorCallback]
               THEN /\ responseReceived' = onCANMessage(monitorCallback, frame, indet)[1]
                    /\ pendingResponse' = onCANMessage(monitorCallback, frame, indet)[2]
                    /\ ub' = ub
               ELSE /\ ub' = outcome
                    /\ UNCHANGED <<responseReceived, pendingResponse>>
       ELSE UNCHANGED <<canStats, responseReceived, pendingResponse, ub>>
    /\ UNCHANGED <<canInitialized, canBaud, monitoring, monitorCallback, filters>>
    /\ UNCHANGED <<alive, initialized, canProtocol, currentSession, stats, lastError>>
    /\ UNCHANGED <<thrVars, poolVars, initResult, shutdownInWait, keyAccepted, relocked>>

monitoringLoop(frame, indet, outcome) ==
    /\ monitoringLoop_iteration(frame, indet, outcome)
    /\ UNCHANGED dispatched

\* The same iteration, recording the frame, the filters it was checked
\* against and whether it was counted and handed to the callback.
monitoringLoop_observed(frame, indet, outcome) ==
    /\ monitoringLoop_iteration(frame, indet, outcome)
    /\ dispatched' = [seen |-> TRUE, frame |-> frame, filters |-> filters,
                      passed |-> canStats'.messagesReceived # canStats.messagesReceived]

(***************************************************************************)
(* UDSClient: life cycle.                                                  *)
(***************************************************************************)
\* CANProtocol::startMonitoring, as its return value.
startMonitoring_ok == canInitialized /\ ~monitoring

UDSClient_initialize(c) ==
    /\ ub # "crashed"
    /\ UNCHANGED <<canHist, flashVars, obdVars>>
    /\ alive[c]
    /\ IF ~canInitialized
       THEN /\ initResult' = [initResult EXCEPT ![c] = "can_not_initialized"]
            /\ UNCHANGED <<canProtocol, monitorCallback, monitoring, initialized>>
       ELSE /\ canProtocol' = [canProtocol EXCEPT ![c] = TRUE]
            /\ IF startMonitoring_ok
               THEN /\ monitorCallback' = c
                    /\ monitoring' = TRUE
                    /\ initialized' = [initialized EXCEPT ![c] = TRUE]
                    /\ initResult' = [initResult EXCEPT ![c] = "ok"]
               ELSE /\ initResult' = [initResult EXCEPT ![c] = "monitor_failed"]
                    /\ UNCHANGED <<monitorCallback, monitoring, initialized>>
    /\ UNCHANGED <<canInitialized, canBaud, filters, canStats>>
    /\ UNCHANGED <<alive, currentSession, responseReceived, pendingResponse, stats,
                   lastError>>
    /\ UNCHANGED <<thrVars, poolVars, shutdownInWait, keyAccepted, relocked, ub>>

\* A thread that is blocked in wait_for of sendRequest on client c with no
\* response stored yet.
Waiting(t, c) == pc[t] = "wait" /\ call[t].client = c /\ ~responseReceived[c]

UDSClient_shutdown(c) ==
    /\ ub # "crashed"
    /\ UNCHANGED <<canHist, flashVars, obdVars>>
    /\ alive[c]
    /\ monitoring' = IF canProtocol[c] /\ monitoring THEN FALSE ELSE monitoring
    /\ initialized' = [initialized EXCEPT ![c] = FALSE]
    /\ shutdownInWait' = [t \in Threads |-> shutdownInWait[t] \/ Waiting(t, c)]
    /\ UNCHANGED <<canInitialized, canBaud, monitorCallback, filters, canStats>>
    /\ UNCHANGED <<alive, canProtocol, currentSession, responseReceived,
                   pendingResponse, stats, lastError>>
    /\ UNCHANGED <<thrVars, poolVars, initResult, keyAccepted, relocked, ub>>

\* ~UDSClient() = default: the Impl is freed and nothing else happens; the
\* CANProtocol, which the application also holds, keeps its callback.  The
\* object is destroyed by its owner while no thread is inside one of its
\* methods and no queued task refers to it.
UDSClient_destroy(c) ==
    /\ ub # "crashed"
    /\ UNCHANGED <<canHist, flashVars, obdVars>>
    /\ alive[c]
    /\ \A t \in Threads : call[t].client # c
    /\ \A i \in 1..Len(tasks) : tasks[i].client # c
    /\ alive' = [alive EXCEPT ![c] = FALSE]
    /\ UNCHANGED <<canVars, initialized, canProtocol, currentSession,
                   responseReceived, pendingResponse, stats, lastError>>
    /\ UNCHANGED <<thrVars, poolVars, histVars>>

(***************************************************************************)
(* UDSClient: the service methods, each as its request and as what it      *)
(* makes of the response that sendRequest returns.                         *)
(***************************************************************************)
\* The request of operation op with argument arg (session, reset type,
\* level or DID bytes) and key.
RequestOf(op, arg, key) ==
    CASE op = "session" -> UDSMessage(DIAGNOSTIC_SESSION_CONTROL, <<arg>>)
      [] op = "reset"   -> UDSMessage(ECU_RESET, <<arg>>)
      [] op = "unlock"  -> UDSMessage(SECURITY_ACCESS, <<arg>>)
      [] op = "key"     -> UDSMessage(SECURITY_ACCESS, <<arg + 1>> \o key)
      [] op = "read"    -> UDSMessage(READ_DATA_BY_IDENTIFIER, arg)
      [] op = "tester"  -> UDSMessage(TESTER_PRESENT, <<arg>>)
      [] OTHER          -> UDSMessage(READ_DATA_BY_IDENTIFIER, arg)

\* startDiagnosticSession without its check of isNegativeResponse.
startDiagnosticSession_unchecked(response, current, session) == session

\* startDiagnosticSession: the cached session after the response.
startDiagnosticSession_session(response, current, session) ==
    IF ~response.isNegativeResponse THEN session ELSE current

\* resetECU: the cached session after the response (resetECU does not write it).
resetECU_session(response, current) == current

\* requestSeed: the seed it returns.
requestSeed_seed(response) ==
    IF ~response.isNegativeResponse /\ Len(response.data) > 1
    THEN Tail(response.data) ELSE <<>>

\* readDataByIdentifier: the bytes it returns.
readDataByIdentifier_data(response) ==
    IF ~response.isNegativeResponse /\ Len(response.data) > 2
    THEN SubSeq(response.data, 3, Len(response.data)) ELSE <<>>

\* The boolean the bool-returning methods return.
Succeeded(response) == ~response.isNegativeResponse

(***************************************************************************)
(* UDSClient::sendRequest and its callers.                                 *)
(***************************************************************************)
\* Impl::updateStats
updateStats(st, isRequest, isNegative, isTimeout) ==
    LET a == IF isRequest
             THEN [st EXCEPT !.requestsSent = @ + 1]
             ELSE [st EXCEPT !.responsesReceived = @ + 1,
                             !.negativeResponses = IF isNegative THEN @ + 1 ELSE @]
    IN  IF isTimeout THEN [a EXCEPT !.timeouts = @ + 1] ELSE a

\* A thread enters a service method of client c.
Invoke(t, c, op, arg, key) ==
    /\ ub # "crashed"
    /\ UNCHANGED <<canHist, flashVars, obdVars>>
    /\ pc[t] = "idle"
    /\ alive[c]
    /\ pc' = [pc EXCEPT ![t] = "call"]
    /\ call' = [call EXCEPT ![t] =
                  [op |-> op, client |-> c, req |-> RequestOf(op, arg, key),
                   arg |-> arg, key |-> key, phase |-> 1,
                   before |-> currentSession[c]]]
    /\ shutdownInWait' = [shutdownInWait EXCEPT ![t] = FALSE]
    /\ UNCHANGED <<canVars, udsVars, ret, ncalls, poolVars, initResult, keyAccepted, relocked, ub>>

\* sendRequestAsync: the task is queued on the global thread pool.
sendRequestAsync(c, arg) ==
    /\ ub # "crashed"
    /\ UNCHANGED <<canHist, flashVars, obdVars>>
    /\ alive[c]
    /\ asyncIssued < MaxAsync
    /\ asyncIssued' = asyncIssued + 1
    /\ tasks' = Append(tasks, [client |-> c, arg |-> arg])
    /\ UNCHANGED <<canVars, udsVars, thrVars, callbackCount, histVars>>

\* A pool worker takes the task at the head of the queue and enters sendRequest.
WorkerTake(t) ==
    /\ ub # "crashed"
    /\ UNCHANGED <<canHist, flashVars, obdVars>>
    /\ pc[t] = "idle"
    /\ tasks # <<>>
    /\ tasks' = Tail(tasks)
    /\ pc' = [pc EXCEPT ![t] = "call"]
    /\ call' = [call EXCEPT ![t] =
                  [op |-> "async", client |-> Head(tasks).client,
                   req |-> RequestOf("read", Head(tasks).arg, <<>>),
                   arg |-> Head(tasks).arg, key |-> <<>>, phase |-> 1,
                   before |-> currentSession[Head(tasks).client]]]
    /\ shutdownInWait' = [shutdownInWait EXCEPT ![t] = FALSE]
    /\ UNCHANGED <<canVars, udsVars, ret, ncalls, asyncIssued, callbackCount,
                   initResult, keyAccepted, relocked, ub>>

\* sendRequest has returned `msg` to the method that thread t is inside: the
\* rest of that method.  Sets pc, call, ret, ncalls, currentSession,
\* callbackCount, keyAccepted and relocked.
Finish(t, msg, kind) ==
    LET c == call[t].client
        op == call[t].op
        Done(ok, data) ==
            /\ pc' = [pc EXCEPT ![t] = "idle"]
            /\ call' = [call EXCEPT ![t] = NoCall]
            /\ ncalls' = [ncalls EXCEPT ![t] = @ + 1]
            /\ ret' = [ret EXCEPT ![t] =
                         [op |-> op, client |-> c, req |-> call[t].req,
                          arg |-> call[t].arg, before |-> call[t].before,
                          msg |-> msg, kind |-> kind, ok |-> ok, data |-> data]]
    IN  CASE op = "session" ->
               /\ Done(Succeeded(msg), <<>>)
               /\ currentSession' = [currentSession EXCEPT ![c] =
                      startDiagnosticSession_session(msg, @, call[t].arg)]
               /\ keyAccepted' = [keyAccepted EXCEPT ![c] =
                      IF Succeeded(msg) THEN {} ELSE @]
               /\ relocked' = [relocked EXCEPT ![c] =
                      IF Succeeded(msg) THEN @ \cup keyAccepted[c] ELSE @]
               /\ UNCHANGED callbackCount
          [] op = "reset" ->
               /\ Done(Succeeded(msg), <<>>)
               /\ currentSession' = [currentSession EXCEPT ![c] =
                      resetECU_session(msg, @)]
               /\ keyAccepted' = [keyAccepted EXCEPT ![c] =
                      IF Succeeded(msg) THEN {} ELSE @]
               /\ relocked' = [relocked EXCEPT ![c] =
                      IF Succeeded(msg) THEN @ \cup keyAccepted[c] ELSE @]
               /\ UNCHANGED callbackCount
          [] op = "key" \/ (op = "unlock" /\ call[t].phase = 2) ->
               /\ Done(Succeeded(msg), <<>>)
               /\ keyAccepted' = [keyAccepted EXCEPT ![c] =
                      IF Succeeded(msg) THEN @ \cup {call[t].arg} ELSE @]
               /\ relocked' = [relocked EXCEPT ![c] =
                      IF Succeeded(msg) THEN @ \ {call[t].arg} ELSE @]
               /\ UNCHANGED <<currentSession, callbackCount>>
          [] op = "unlock" /\ call[t].phase = 1 ->
               IF requestSeed_seed(msg) = <<>>
               THEN /\ Done(FALSE, <<>>)
                    /\ UNCHANGED <<currentSession, callbackCount, keyAccepted, relocked>>
               ELSE /\ pc' = [pc EXCEPT ![t] = "call"]
                    /\ call' = [call EXCEPT ![t].phase = 2,
                                   ![t].req = RequestOf("key", call[t].arg, call[t].key)]
                    /\ UNCHANGED <<ret, ncalls, currentSession, callbackCount,
                                   keyAccepted, relocked>>
          [] op = "read" ->
               /\ Done(readDataByIdentifier_data(msg) # <<>>,
                       readDataByIdentifier_data(msg))
               /\ UNCHANGED <<currentSession, callbackCount, keyAccepted, relocked>>
          [] op = "flash" ->
               /\ Done(Succeeded(msg), <<>>)
               /\ UNCHANGED <<currentSession, callbackCount, keyAccepted, relocked>>
          [] op = "tester" ->
               /\ Done(Succeeded(msg), <<>>)
               /\ UNCHANGED <<currentSession, callbackCount, keyAccepted, relocked>>
          [] op = "async" ->
               /\ Done(Succeeded(msg), <<>>)
               /\ callbackCount' = callbackCount + 1
               /\ UNCHANGED <<currentSession, keyAccepted, relocked>>

\* sendRequest, lines 219-235: the initialized check and the reset of
\* responseReceived under requestMutex.
sendRequest_enter(t, indet) ==
    LET c == call[t].client IN
    /\ ub # "crashed"
    /\ UNCHANGED <<canHist, flashVars, obdVars>>
    /\ pc[t] = "call"
    /\ IF ~initialized[c]
       THEN /\ Finish(t, ErrorResponse(CONDITIONS_NOT_CORRECT, indet), "not_initialized")
            /\ UNCHANGED responseReceived
       ELSE /\ responseReceived' = [responseReceived EXCEPT ![c] = FALSE]
            /\ pc' = [pc EXCEPT ![t] = "send"]
            /\ UNCHANGED <<call, ret, ncalls, currentSession, callbackCount, keyAccepted,
                           relocked>>
    /\ UNCHANGED <<canVars, alive, initialized, canProtocol, pendingResponse, stats,
                   lastError>>
    /\ UNCHANGED <<tasks, asyncIssued, initResult, shutdownInWait, ub>>

\* sendMessage without its call of isValid.
sendMessage_unvalidated(message) == canInitialized

\* CANProtocol::sendMessage, as its return value.
sendMessage_ok(message) == canInitialized /\ CANMessage_isValid(message)

\* CANProtocol::sendMessage called by the application.
CANProtocol_sendMessage(message) ==
    /\ ub # "crashed"
    /\ canStats' = IF sendMessage_ok(message)
                   THEN [canStats EXCEPT !.messagesSent = @ + 1]
                   ELSE canStats
    /\ sent' = [called |-> TRUE, message |-> message,
                result |-> sendMessage_ok(message),
                wasInitialized |-> canInitialized,
                before |-> canStats, after |-> canStats']
    /\ UNCHANGED <<canInitialized, canBaud, monitoring, monitorCallback, filters>>
    /\ UNCHANGED <<udsVars, thrVars, poolVars, histVars, dispatched, flashVars, obdVars>>

\* sendRequest, lines 237-247: the frame goes to the bus.
sendRequest_send(t, indet) ==
    LET c == call[t].client
        canMsg == toCANMessage(call[t].req, RequestId(c))
    IN
    /\ ub # "crashed"
    /\ UNCHANGED <<canHist, flashVars, obdVars>>
    /\ pc[t] = "send"
    /\ IF ~sendMessage_ok(canMsg)
       THEN /\ lastError' = [lastError EXCEPT ![c] =
                               [hasError |-> TRUE, errorCode |-> GENERAL_REJECT]]
            /\ Finish(t, ErrorResponse(GENERAL_REJECT, indet), "send_failed")
            /\ UNCHANGED <<canStats, stats>>
       ELSE /\ canStats' = [canStats EXCEPT !.messagesSent = @ + 1]
            /\ stats' = [stats EXCEPT ![c] = updateStats(@, TRUE, FALSE, FALSE)]
            /\ pc' = [pc EXCEPT ![t] = "wait"]
            /\ UNCHANGED <<lastError, call, ret, ncalls, currentSession, callbackCount,
                           keyAccepted, relocked>>
    /\ UNCHANGED <<canInitialized, canBaud, monitoring, monitorCallback, filters>>
    /\ UNCHANGED <<alive, initialized, canProtocol, responseReceived, pendingResponse>>
    /\ UNCHANGED <<tasks, asyncIssued, initResult, shutdownInWait, ub>>

\* sendRequest waiting with no deadline: the wait never ends by itself.
sendRequest_wait_forever(t, indet) ==
    /\ pc[t] = "wait"
    /\ FALSE
    /\ UNCHANGED vars

\* sendRequest, lines 250-264 with wait_for returning false: the deadline
\* passed and responseReceived is still unset.
sendRequest_timeout(t, indet) ==
    LET c == call[t].client IN
    /\ ub # "crashed"
    /\ UNCHANGED <<canHist, flashVars, obdVars>>
    /\ pc[t] = "wait"
    /\ ~responseReceived[c]
    /\ stats' = [stats EXCEPT ![c] = updateStats(@, FALSE, FALSE, TRUE)]
    /\ lastError' = [lastError EXCEPT ![c] =
                       [hasError |-> TRUE, errorCode |-> GENERAL_REJECT]]
    /\ Finish(t, ErrorResponse(GENERAL_REJECT, indet), "timeout")
    /\ UNCHANGED <<canVars, alive, initialized, canProtocol, responseReceived,
                   pendingResponse>>
    /\ UNCHANGED <<tasks, asyncIssued, initResult, shutdownInWait, ub>>

\* sendRequest, lines 250-253 and 266-277: the wait ends because
\* responseReceived is set, and pendingResponse is returned.
sendRequest_receive(t) ==
    LET c == call[t].client
        response == pendingResponse[c]
    IN
    /\ ub # "crashed"
    /\ UNCHANGED <<canHist, flashVars, obdVars>>
    /\ pc[t] = "wait"
    /\ responseReceived[c]
    /\ stats' = [stats EXCEPT ![c] =
                   updateStats(@, FALSE, response.isNegativeResponse, FALSE)]
    /\ lastError' = [lastError EXCEPT ![c] =
                       IF response.isNegativeResponse
                       THEN [hasError |-> TRUE,
                             errorCode |-> response.negativeResponseCode]
                       ELSE [@ EXCEPT !.hasError = FALSE]]
    /\ Finish(t, response, "response")
    /\ UNCHANGED <<canVars, alive, initialized, canProtocol, responseReceived,
                   pendingResponse>>
    /\ UNCHANGED <<tasks, asyncIssued, initResult, shutdownInWait, ub>>

(***************************************************************************)
(* FlashManager.  programFlash is a sequence of blocking UDS calls; `flash` *)
(* holds its locals and the call it is waiting in.  A block of the file is  *)
(* its address and the number of its data bytes.                            *)
(***************************************************************************)
\* utils::uint32ToBytes(value, true): four bytes, most significant first.
uint32ToBytes(value) ==
    <<(value \div 16777216) % 256, (value \div 65536) % 256,
      (value \div 256) % 256, value % 256>>

\* n data bytes (their values do not matter to the code modelled here).
Zeros(n) == [k \in 1..n |-> 0]

RECURSIVE getTotalSize(_)
getTotalSize(blocks) ==
    IF blocks = <<>> THEN 0 ELSE Head(blocks).size + getTotalSize(Tail(blocks))

\* The positions of programFlash inside a UDS call.
FlashRunning == {"session", "unlock", "download", "transfer", "exit", "verify"}

FlashLogEntry(op, block, seq, size) ==
    [op |-> op, block |-> block, seq |-> seq, size |-> size]

\* A retry policy in the place of the throw: the failed request is issued
\* again.
programFlash_retry(fl, code) ==
    [fl EXCEPT !.error = code, !.log = Append(@, fl.log[Len(fl.log)])]

\* throw FlashError(code, ...): programFlash is left, nothing else is done.
programFlash_throw(fl, code) == [fl EXCEPT !.pc = "failed", !.error = code]

\* verifyFlash called whatever verifyAfterWrite says.
programFlash_verify_always(fl) ==
    IF ~fl.initialized THEN programFlash_throw(fl, "VERIFICATION_FAILED")
    ELSE IF Len(fl.blocks) = 0 THEN [fl EXCEPT !.pc = "done"]
    ELSE [fl EXCEPT !.pc = "verify", !.i = 1,
                    !.log = Append(@, FlashLogEntry("verify", 1, 0, 0))]

\* Lines 1162-1184: verifyFlash if configured, then return true.
programFlash_verify(fl) ==
    IF ~fl.config.verifyAfterWrite THEN [fl EXCEPT !.pc = "done"]
    ELSE IF ~fl.initialized THEN programFlash_throw(fl, "VERIFICATION_FAILED")
    ELSE IF Len(fl.blocks) = 0 THEN [fl EXCEPT !.pc = "done"]
    ELSE [fl EXCEPT !.pc = "verify", !.i = 1,
                    !.log = Append(@, FlashLogEntry("verify", 1, 0, 0))]

\* Lines 1122-1133: the head of the block loop for block i, up to the call of
\* requestDownload.
programFlash_block(fl, i) ==
    IF i > Len(fl.blocks) THEN programFlash_verify(fl)
    ELSE [fl EXCEPT !.pc = "download", !.i = i, !.offset = 0,
                    !.log = Append(@, FlashLogEntry("download", i, 0,
                                                    fl.blocks[i].size))]

\* Lines 1137-1157: the head of the chunk loop, up to the call of transferData
\* with blockSequence++ (a uint8_t), or of requestTransferExit after the loop.
programFlash_chunk(fl) ==
    LET size == fl.blocks[fl.i].size
        chunkSize == Min(fl.config.blockSize, size - fl.offset)
    IN  IF fl.offset < size
        THEN [fl EXCEPT !.pc = "transfer", !.seq = fl.blockSequence,
                        !.chunkSize = chunkSize,
                        !.blockSequence = (@ + 1) % UINT8_MOD,
                        !.log = Append(@, FlashLogEntry("transfer", fl.i,
                                                        fl.blockSequence, chunkSize))]
        ELSE [fl EXCEPT !.pc = "exit",
                        !.log = Append(@, FlashLogEntry("exit", fl.i, 0, 0))]

\* Lines 1090-1108: programFlash(flashFile) called by thread t, up to its
\* first call.
programFlash_enter(fl, t, blocks) ==
    IF ~fl.initialized
    THEN [fl EXCEPT !.pc = "failed", !.error = "INITIALIZATION_FAILED",
                    !.thread = t, !.log = <<>>, !.replies = <<>>, !.runs = @ + 1]
    ELSE [fl EXCEPT !.stats = [FlashStatistics EXCEPT
                                  !.totalBlocks = Len(blocks),
                                  !.totalBytes = getTotalSize(blocks)],
                    !.pc = "session", !.thread = t, !.blocks = blocks,
                    !.i = 0, !.offset = 0, !.blockSequence = 1, !.seq = 0,
                    !.chunkSize = 0, !.error = "none", !.runs = @ + 1,
                    !.log = <<FlashLogEntry("session", 0, 0, 0)>>,
                    !.replies = <<>>]

\* programFlash from the return of the call it was waiting in to its next
\* call, its return or its throw.  `ok` is what the call returned; `same` is
\* whether the data read back equals the block (verifyFlash).  `replies`
\* keeps what each call returned.
programFlash_next(flsh, ok, same) ==
  LET fl == [flsh EXCEPT !.replies =
                Append(@, IF flsh.pc = "verify" THEN same ELSE ok)]
  IN
    CASE fl.pc = "session" ->
           IF ~ok THEN programFlash_throw(fl, "BOOTLOADER_ENTRY_FAILED")
           ELSE IF fl.config.securityKey # <<>>
           THEN [fl EXCEPT !.pc = "unlock",
                           !.log = Append(@, FlashLogEntry("unlock", 0, 0, 0))]
           ELSE programFlash_block(fl, 1)
      [] fl.pc = "unlock" ->
           IF ~ok THEN programFlash_throw(fl, "SECURITY_ACCESS_DENIED")
           ELSE programFlash_block(fl, 1)
      [] fl.pc = "download" ->
           IF ~ok THEN programFlash_throw(fl, "PROGRAMMING_FAILED")
           ELSE programFlash_chunk(fl)
      [] fl.pc = "transfer" ->
           IF ~ok THEN programFlash_throw(fl, "PROGRAMMING_FAILED")
           ELSE programFlash_chunk(
                    [fl EXCEPT !.offset = @ + fl.chunkSize,
                               !.stats.bytesWritten = @ + fl.chunkSize])
      [] fl.pc = "exit" ->
           IF ~ok THEN programFlash_throw(fl, "PROGRAMMING_FAILED")
           ELSE programFlash_block([fl EXCEPT !.stats.blocksWritten = @ + 1],
                                   fl.i + 1)
      [] fl.pc = "verify" ->
           IF ~same THEN programFlash_throw(fl, "VERIFICATION_FAILED")
           ELSE IF fl.i < Len(fl.blocks)
           THEN [fl EXCEPT !.i = @ + 1,
                           !.log = Append(@, FlashLogEntry("verify", fl.i + 1, 0, 0))]
           ELSE [fl EXCEPT !.pc = "done"]

\* The UDS call programFlash makes at position fl.pc on client c.
FlashCall(fl, c) ==
    LET Call(op, req, arg, key) ==
            [op |-> op, client |-> c, req |-> req, arg |-> arg, key |-> key,
             phase |-> 1, before |-> currentSession[c]]
    IN  CASE fl.pc = "session" ->
               Call("session", RequestOf("session", PROGRAMMING, <<>>), PROGRAMMING, <<>>)
          [] fl.pc = "unlock" ->
               Call("unlock", RequestOf("unlock", fl.config.securityLevel, <<>>),
                    fl.config.securityLevel, fl.config.securityKey)
          [] fl.pc = "download" ->
               Call("flash",
                    UDSMessage(REQUEST_DOWNLOAD,
                               <<0, 68>> \o uint32ToBytes(fl.blocks[fl.i].address)
                                         \o uint32ToBytes(fl.blocks[fl.i].size)),
                    0, <<>>)
          [] fl.pc = "transfer" ->
               Call("flash",
                    UDSMessage(TRANSFER_DATA, <<fl.seq>> \o Zeros(fl.chunkSize)),
                    0, <<>>)
          [] fl.pc = "exit" ->
               Call("flash", UDSMessage(REQUEST_TRANSFER_EXIT, <<>>), 0, <<>>)
          [] fl.pc = "verify" ->
               Call("read", RequestOf("read", <<16, fl.i - 1>>, <<>>),
                    <<16, fl.i - 1>>, <<>>)

\* FlashManager::initialize(udsClient, config)
FlashManager_initialize(c, config) ==
    /\ ub # "crashed"
    /\ alive[c]
    /\ flash.pc \notin FlashRunning
    /\ flash' = IF ~initialized[c] THEN flash
                ELSE [flash EXCEPT !.udsClient = c, !.config = config,
                                   !.initialized = TRUE]
    /\ UNCHANGED <<canVars, udsVars, thrVars, poolVars, histVars, canHist, flashFile, obdVars>>

\* Thread t calls programFlash and runs to its first UDS call or its throw.
programFlash(t, blocks) ==
    /\ ub # "crashed"
    /\ pc[t] = "idle"
    /\ flash.pc \notin FlashRunning
    /\ flash' = programFlash_enter(flash, t, blocks)
    /\ IF flash'.pc \in FlashRunning
       THEN /\ pc' = [pc EXCEPT ![t] = "call"]
            /\ call' = [call EXCEPT ![t] = FlashCall(flash', flash.udsClient)]
       ELSE UNCHANGED <<pc, call>>
    /\ UNCHANGED <<canVars, udsVars, ret, ncalls, poolVars, histVars, canHist, flashFile, obdVars>>

\* The UDS call that programFlash was waiting in has returned to thread t:
\* programFlash runs on to its next call, its return or its throw.
programFlash_resume(t) ==
    /\ ub # "crashed"
    /\ flash.pc \in FlashRunning
    /\ flash.thread = t
    /\ pc[t] = "idle"
    /\ flash' = programFlash_next(flash, ret[t].ok,
                    flash.pc = "verify" /\
                    ret[t].data = Zeros(flash.blocks[flash.i].size))
    /\ IF flash'.pc \in FlashRunning
       THEN /\ pc' = [pc EXCEPT ![t] = "call"]
            /\ call' = [call EXCEPT ![t] = FlashCall(flash', flash.udsClient)]
       ELSE UNCHANGED <<pc, call>>
    /\ UNCHANGED <<canVars, udsVars, ret, ncalls, poolVars, histVars, canHist, flashFile, obdVars>>

\* programFlash called on a manager whose UDS client answers: no thread of
\* the model is inside the client, each call's result is given by the step
\* that follows.
programFlash_answered(blocks) ==
    /\ ub # "crashed"
    /\ flash.pc \notin FlashRunning
    /\ flash' = programFlash_enter(flash, 0, blocks)
    /\ UNCHANGED <<canVars, udsVars, thrVars, poolVars, histVars, canHist, flashFile, obdVars>>

\* The call programFlash was waiting in returns `ok` (and, for the read of
\* verifyFlash, data that is or is not that of the block).
programFlash_reply(ok, same) ==
    /\ ub # "crashed"
    /\ flash.pc \in FlashRunning
    /\ flash.thread = 0
    /\ flash' = programFlash_next(flash, ok, same)
    /\ UNCHANGED <<canVars, udsVars, thrVars, poolVars, histVars, canHist, flashFile, obdVars>>

(***************************************************************************)
(* FlashFile: loading and validating.                                       *)
(***************************************************************************)
\* FlashFile::loadFromData(data, fmt)
FlashFile_loadFromData(lines, fmt) ==
    /\ ub # "crashed"
    /\ flashFile' = [format |-> fmt, blocks |-> parseAs(fmt, lines).blocks,
                     input |-> lines,
                     loadCalled |-> TRUE, loaded |-> parseAs(fmt, lines).ok,
                     validateCalled |-> FALSE, valid |-> FALSE]
    /\ UNCHANGED <<canVars, udsVars, thrVars, poolVars, histVars, canHist, flash, obdVars>>

\* FlashFile::validate()
FlashFile_validate ==
    /\ ub # "crashed"
    /\ flashFile' = [flashFile EXCEPT !.validateCalled = TRUE,
                                      !.valid = validate(flashFile.blocks)]
    /\ UNCHANGED <<canVars, udsVars, thrVars, poolVars, histVars, canHist, flash, obdVars>>

(***************************************************************************)
(* Inputs.                                                                 *)
(***************************************************************************)
VIN_DID == <<241, 144>>                         \* DID 0xF190
BaudRates == {DEFAULT_BAUD, 12345}
Outcomes == {"survived", "crashed"}

\* The frame the source's dispatch loop hands to its callback (can.cpp:176).
SimulatedFrame == CANMessage(DEFAULT_RESPONSE_ID, <<6, 65, 0, 190, 63, 184, 19>>)

\* Frames an ECU sends on the response id of client c.
PendingFrame(c, sid) == CANMessage(ResponseId(c), <<NEGATIVE_RESPONSE_SID, sid, RESPONSE_PENDING>>)
DeniedFrame(c, sid) == CANMessage(ResponseId(c), <<NEGATIVE_RESPONSE_SID, sid, SECURITY_ACCESS_DENIED>>)
PositiveFrame(c, sid, body) == CANMessage(ResponseId(c), <<sid + POSITIVE_RESPONSE_OFFSET>> \o body)

ExchangeFrames ==
    { PendingFrame(1, READ_DATA_BY_IDENTIFIER),
      DeniedFrame(1, READ_DATA_BY_IDENTIFIER),
      PositiveFrame(1, READ_DATA_BY_IDENTIFIER, VIN_DID \o <<49>>),
      SimulatedFrame,
      CANMessage(ResponseId(1), <<>>) }

(***************************************************************************)
(* Spec: one UDS client, two threads that read a DID through sendRequest   *)
(* and sendRequestAsync, and the owner that starts and shuts down the      *)
(* client and the CAN protocol.                                            *)
(***************************************************************************)
Next ==
    \/ \E b \in BaudRates : CANProtocol_initialize(b)
    \/ CANProtocol_shutdown
    \/ UDSClient_initialize(1)
    \/ UDSClient_shutdown(1)
    \/ \E t \in AppThreads : ncalls[t] < MaxCalls /\ Invoke(t, 1, "read", VIN_DID, <<>>)
    \/ sendRequestAsync(1, VIN_DID)
    \/ \E t \in PoolWorkers : WorkerTake(t)
    \/ \E t \in Threads, i \in Indeterminate : sendRequest_enter(t, i)
    \/ \E t \in Threads, i \in Indeterminate : sendRequest_send(t, i)
    \/ \E t \in Threads, i \in Indeterminate : sendRequest_timeout(t, i)
    \/ \E t \in Threads : sendRequest_receive(t)
    \/ \E f \in ExchangeFrames, i \in Indeterminate, o \in Outcomes :
          canStats.messagesReceived < MaxFrames /\ monitoringLoop(f, i, o)

Spec == Init /\ [][Next]_vars

(***************************************************************************)
(* SpecSession: one client and one application thread that runs the        *)
(* session and reset services one after the other.                         *)
(***************************************************************************)
Sessions == {DEFAULT, EXTENDED_DIAGNOSTIC}

SessionFrames ==
    { PositiveFrame(1, DIAGNOSTIC_SESSION_CONTROL, <<EXTENDED_DIAGNOSTIC>>),
      CANMessage(ResponseId(1),
                 <<NEGATIVE_RESPONSE_SID, DIAGNOSTIC_SESSION_CONTROL, CONDITIONS_NOT_CORRECT>>),
      PositiveFrame(1, ECU_RESET, <<DEFAULT_RESET_TYPE>>) }

NextSession ==
    \/ CANProtocol_initialize(DEFAULT_BAUD)
    \/ CANProtocol_shutdown
    \/ UDSClient_initialize(1)
    \/ \E t \in AppThreads, s \in Sessions :
          ncalls[t] < MaxSessionCalls /\ Invoke(t, 1, "session", s, <<>>)
    \/ \E t \in AppThreads :
          ncalls[t] < MaxSessionCalls /\ Invoke(t, 1, "reset", DEFAULT_RESET_TYPE, <<>>)
    \/ \E t \in AppThreads, i \in Indeterminate : sendRequest_enter(t, i)
    \/ \E t \in AppThreads, i \in Indeterminate : sendRequest_send(t, i)
    \/ \E t \in AppThreads, i \in Indeterminate : sendRequest_timeout(t, i)
    \/ \E t \in AppThreads : sendRequest_receive(t)
    \/ \E f \in SessionFrames, i \in Indeterminate, o \in Outcomes :
          canStats.messagesReceived < MaxSessionFrames /\ monitoringLoop(f, i, o)

SpecSession == Init /\ [][NextSession]_vars

(***************************************************************************)
(* SpecSecurity: one client and one application thread that runs the       *)
(* security-access, session and read services one after the other.         *)
(***************************************************************************)
SecurityLevel == 1
ShortKey == <<18, 52>>
LongKey == <<1, 2, 3, 4, 5, 6, 7, 8>>     \* makes a request of 10 bytes

SecurityFrames ==
    { PositiveFrame(1, DIAGNOSTIC_SESSION_CONTROL, <<DEFAULT>>),
      PositiveFrame(1, SECURITY_ACCESS, <<SecurityLevel, 170, 187>>),
      PositiveFrame(1, SECURITY_ACCESS, <<SecurityLevel + 1>>),
      PositiveFrame(1, READ_DATA_BY_IDENTIFIER, VIN_DID \o <<49>>),
      DeniedFrame(1, READ_DATA_BY_IDENTIFIER) }

NextSecurity ==
    \/ CANProtocol_initialize(DEFAULT_BAUD)
    \/ UDSClient_initialize(1)
    \/ \E t \in AppThreads :
          ncalls[t] < MaxSecurityCalls /\ Invoke(t, 1, "session", DEFAULT, <<>>)
    \/ \E t \in AppThreads :
          ncalls[t] < MaxSecurityCalls /\ Invoke(t, 1, "unlock", SecurityLevel, ShortKey)
    \/ \E t \in AppThreads, k \in {ShortKey, LongKey} :
          ncalls[t] < MaxSecurityCalls /\ Invoke(t, 1, "key", SecurityLevel, k)
    \/ \E t \in AppThreads :
          ncalls[t] < MaxSecurityCalls /\ Invoke(t, 1, "read", VIN_DID, <<>>)
    \/ \E t \in AppThreads, i \in Indeterminate : sendRequest_enter(t, i)
    \/ \E t \in AppThreads, i \in Indeterminate : sendRequest_send(t, i)
    \/ \E t \in AppThreads, i \in Indeterminate : sendRequest_timeout(t, i)
    \/ \E t \in AppThreads : sendRequest_receive(t)
    \/ \E f \in SecurityFrames, i \in Indeterminate, o \in Outcomes :
          canStats.messagesReceived < MaxSecurityFrames /\ monitoringLoop(f, i, o)

SpecSecurity == Init /\ [][NextSecurity]_vars

(***************************************************************************)
(* SpecClients: two clients with distinct id pairs on one CANProtocol,     *)
(* their owner that initializes, shuts down and destroys them, the filter  *)
(* set, and one application thread that reads through either client.       *)
(***************************************************************************)
ClientFrames ==
    { PositiveFrame(1, READ_DATA_BY_IDENTIFIER, VIN_DID \o <<49>>),
      PositiveFrame(2, READ_DATA_BY_IDENTIFIER, VIN_DID \o <<50>>) }

\* Accept filters for the response id of client 1 and of client 2.
ClientFilters ==
    { [id |-> ResponseId(c), mask |-> CAN_MAX_STD_ID, extended |-> FALSE,
       passThrough |-> TRUE] : c \in Clients }

NextClients ==
    \/ CANProtocol_initialize(DEFAULT_BAUD)
    \/ CANProtocol_shutdown
    \/ \E f \in ClientFilters : CANProtocol_addFilter(f)
    \/ CANProtocol_clearFilters
    \/ \E c \in Clients : UDSClient_initialize(c)
    \/ \E c \in Clients : UDSClient_shutdown(c)
    \/ \E c \in Clients : UDSClient_destroy(c)
    \/ \E t \in AppThreads, c \in Clients :
          ncalls[t] < MaxClientCalls /\ Invoke(t, c, "read", VIN_DID, <<>>)
    \/ \E t \in AppThreads, i \in Indeterminate : sendRequest_enter(t, i)
    \/ \E t \in AppThreads, i \in Indeterminate : sendRequest_send(t, i)
    \/ \E t \in AppThreads, i \in Indeterminate : sendRequest_timeout(t, i)
    \/ \E t \in AppThreads : sendRequest_receive(t)
    \/ \E f \in ClientFrames, i \in Indeterminate, o \in Outcomes :
          canStats.messagesReceived < MaxClientFrames /\ monitoringLoop(f, i, o)

SpecClients == Init /\ [][NextClients]_vars

(***************************************************************************)
(* SpecFlash: a FlashManager on UDS client 1; one thread calls programFlash *)
(* and every request goes through sendRequest and the CAN protocol.         *)
(***************************************************************************)
\* One block of 512 bytes at 0x8000; two blocks of two bytes.
OneBlock512 == <<[address |-> 32768, size |-> 512]>>
TwoBlocks == <<[address |-> 32768, size |-> 2],
               [address |-> 33024, size |-> 2]>>
FlashFiles == {OneBlock512, TwoBlocks}
FlashConfigs == {FlashConfig(DEFAULT_BLOCK_SIZE, TRUE, ShortKey),
                 FlashConfig(DEFAULT_BLOCK_SIZE, FALSE, <<>>)}

FlashFrames ==
    { PositiveFrame(1, DIAGNOSTIC_SESSION_CONTROL, <<PROGRAMMING>>),
      DeniedFrame(1, DIAGNOSTIC_SESSION_CONTROL),
      PositiveFrame(1, SECURITY_ACCESS, <<DEFAULT_SECURITY_LEVEL, 170>>),
      PositiveFrame(1, SECURITY_ACCESS, <<DEFAULT_SECURITY_LEVEL + 1>>),
      DeniedFrame(1, SECURITY_ACCESS),
      PositiveFrame(1, REQUEST_DOWNLOAD, <<32, 1, 0>>) }

NextFlash ==
    \/ CANProtocol_initialize(DEFAULT_BAUD)
    \/ UDSClient_initialize(1)
    \/ \E cfg \in FlashConfigs : flash.pc = "idle" /\ FlashManager_initialize(1, cfg)
    \/ \E t \in AppThreads, file \in FlashFiles :
          flash.runs < MaxFlashRuns /\ programFlash(t, file)
    \/ \E t \in AppThreads : programFlash_resume(t)
    \/ \E t \in AppThreads, i \in Indeterminate : sendRequest_enter(t, i)
    \/ \E t \in AppThreads, i \in Indeterminate : sendRequest_send(t, i)
    \/ \E t \in AppThreads, i \in Indeterminate : sendRequest_timeout(t, i)
    \/ \E t \in AppThreads : sendRequest_receive(t)
    \/ \E f \in FlashFrames, i \in Indeterminate, o \in Outcomes :
          canStats.messagesReceived < MaxFlashFrames /\ monitoringLoop(f, i, o)

\* The manager is configured before programFlash is first called.
SpecFlash == Init /\ [][NextFlash]_vars

(***************************************************************************)
(* SpecTransfer: programFlash on a manager whose UDS calls return; what     *)
(* each call returns is an input of the step that follows it.               *)
(***************************************************************************)
TransferFiles ==
    { OneBlock512, TwoBlocks, <<[address |-> 32768, size |-> 3]>> }
TransferConfigs ==
    { FlashConfig(bs, v, k) : bs \in {DEFAULT_BLOCK_SIZE, 1}, v \in BOOLEAN,
                              k \in {<<>>, ShortKey} }

NextTransfer ==
    \/ CANProtocol_initialize(DEFAULT_BAUD)
    \/ UDSClient_initialize(1)
    \/ \E cfg \in TransferConfigs :
          flash.pc = "idle" /\ FlashManager_initialize(1, cfg)
    \/ \E file \in TransferFiles :
          flash.runs < MaxTransferRuns /\ programFlash_answered(file)
    \/ \E ok \in BOOLEAN, same \in BOOLEAN : programFlash_reply(ok, same)

SpecTransfer == Init /\ [][NextTransfer]_vars

(***************************************************************************)
(* SpecFilter: the CAN protocol with one handler installed; the application *)
(* sets filters and the dispatch thread receives frames.                    *)
(* SpecSend: the application sends frames through the CAN protocol, which   *)
(* it and the UDS client start and stop.                                    *)
(***************************************************************************)
CANFilter(id, mask, extended, passThrough) ==
    [id |-> id, mask |-> mask, extended |-> extended, passThrough |-> passThrough]

CanFilters ==
    { CANFilter(DEFAULT_RESPONSE_ID, CAN_MAX_STD_ID, FALSE, TRUE),
      CANFilter(DEFAULT_REQUEST_ID, 2032, FALSE, TRUE),        \* mask 0x7F0
      CANFilter(DEFAULT_RESPONSE_ID, CAN_MAX_STD_ID, FALSE, FALSE),
      CANFilter(DEFAULT_RESPONSE_ID, CAN_MAX_STD_ID, TRUE, TRUE) }

ReceivedFrames ==
    { SimulatedFrame,
      CANMessage(DEFAULT_RESPONSE_ID + 1, <<1>>),
      CANMessage(291, <<1>>),                                  \* id 0x123
      [CANMessage(DEFAULT_RESPONSE_ID, <<1>>) EXCEPT !.extended = TRUE] }

SentFrames ==
    { CANMessage(DEFAULT_REQUEST_ID, <<2, 16, 3>>),
      CANMessage(CAN_MAX_STD_ID, <<>>),
      CANMessage(CAN_MAX_STD_ID + 1, <<1>>),
      CANMessage(DEFAULT_REQUEST_ID, <<1, 2, 3, 4, 5, 6, 7, 8>>),
      CANMessage(DEFAULT_REQUEST_ID, <<1, 2, 3, 4, 5, 6, 7, 8, 9>>),
      [CANMessage(CAN_MAX_EXT_ID, <<1>>) EXCEPT !.extended = TRUE],
      [CANMessage(CAN_MAX_EXT_ID + 1, <<1>>) EXCEPT !.extended = TRUE] }

NextFilter ==
    \/ CANProtocol_initialize(DEFAULT_BAUD)
    \/ UDSClient_initialize(1)
    \/ \E f \in CanFilters : CANProtocol_addFilter(f)
    \/ CANProtocol_clearFilters
    \/ \E f \in ReceivedFrames, i \in Indeterminate, o \in Outcomes :
          canStats.messagesReceived < MaxCanFrames /\ monitoringLoop_observed(f, i, o)

SpecFilter == Init /\ [][NextFilter]_vars

NextSend ==
    \/ \E b \in BaudRates : CANProtocol_initialize(b)
    \/ CANProtocol_shutdown
    \/ UDSClient_initialize(1)
    \/ UDSClient_shutdown(1)
    \/ \E m \in SentFrames :
          canStats.messagesSent < MaxSent /\ CANProtocol_sendMessage(m)

SpecSend == Init /\ [][NextSend]_vars

(***************************************************************************)
(* SpecParse: a flash file of up to MaxRecords lines is loaded into a new   *)
(* FlashFile, which is then validated.                                      *)
(***************************************************************************)
\* The two hex digits of each byte, as a record line carries them.
RECURSIVE HexChars(_)
HexChars(bytes) ==
    IF bytes = <<>> THEN <<>>
    ELSE <<Head(bytes) \div 16, Head(bytes) % 16>> \o HexChars(Tail(bytes))

RECURSIVE SumBytes(_)
SumBytes(bytes) == IF bytes = <<>> THEN 0 ELSE Head(bytes) + SumBytes(Tail(bytes))

Fill(n, v) == [k \in 1..n |-> v]

\* An Intel HEX line ":CCAAAATT<data>SS"; `off` is added to the correct
\* checksum (0 for a correct record).
IntelRecord(recordType, address, data, off) ==
    LET body == <<Len(data), address \div 256, address % 256, recordType>> \o data
    IN  <<CHAR_COLON>> \o
        HexChars(body \o <<((256 - (SumBytes(body) % 256)) + off) % 256>>)

\* A Motorola line "STCC<address><data>SS".
SRecord(recordType, address, data, off) ==
    LET body == <<Len(address) + Len(data) + 1>> \o address \o data
    IN  <<CHAR_S, recordType>> \o
        HexChars(body \o <<((255 - (SumBytes(body) % 256)) + off) % 256>>)

IntelLines ==
    { IntelRecord(0, 256, Fill(16, 170), 0),          \* 16 bytes at 0x0100
      IntelRecord(0, 264, Fill(16, 187), 0),          \* 16 bytes at 0x0108
      IntelRecord(0, 272, Fill(16, 204), 0),          \* 16 bytes at 0x0110
      IntelRecord(0, 512, Fill(2, 1), 1),             \* wrong checksum
      IntelRecord(4, 0, <<255, 255>>, 0),             \* upper address 0xFFFF
      IntelRecord(0, 65528, Fill(16, 1), 0),          \* 16 bytes at 0xFFF8
      IntelRecord(1, 0, <<>>, 0) }                    \* end of file

SLines ==
    { SRecord(1, <<1, 0>>, Fill(16, 170), 0),                 \* 16 bytes at 0x0100
      SRecord(1, <<1, 8>>, Fill(16, 187), 0),                 \* 16 bytes at 0x0108
      SRecord(1, <<2, 0>>, Fill(2, 1), 1),                    \* wrong checksum
      SRecord(3, <<255, 255, 255, 248>>, Fill(16, 1), 0),     \* at 0xFFFFFFF8
      SRecord(3, <<255, 255, 255, 252>>, Fill(2, 1), 0),      \* at 0xFFFFFFFC
      SRecord(3, <<255, 255, 255, 240>>, Fill(16, 1), 0),     \* at 0xFFFFFFF0
      SRecord(9, <<0, 0>>, <<>>, 0) }                         \* termination

FilesOf(lineSet) == UNION { [1..n -> lineSet] : n \in 0..MaxRecords }

ParseInputs ==
    { <<"INTEL_HEX", f>> : f \in FilesOf(IntelLines) }
    \cup { <<"MOTOROLA_S_RECORD", f>> : f \in FilesOf(SLines) }
    \cup { <<fmt, f>> : fmt \in {"BINARY", "ELF", "ODX_F"},
                        f \in {<<>>, <<<<1, 2>>>>} }

NextParse ==
    \/ \E in \in ParseInputs :
          ~flashFile.loadCalled /\ FlashFile_loadFromData(in[2], in[1])
    \/ FlashFile_validate

SpecParse == Init /\ [][NextParse]_vars

(***************************************************************************)
(* SpecStages: as SpecTransfer above, with small blocks, with files whose   *)
(* blocks are not in address order (the blocks parseMotorolaS makes of     *)
(* records that are not sorted) and with configurations that name regions. *)
(***************************************************************************)
\* The blocks of a loaded FlashFile as programFlash uses them.
BlocksOf(parsed) ==
    [i \in 1..Len(parsed) |->
        [address |-> parsed[i].address[1] * UINT16_MOD + parsed[i].address[2],
         size |-> Len(parsed[i].data)]]

\* S1 records of 2 bytes at 0x0200 and then of 3 bytes at 0x0100.
UnsortedSFile ==
    << SRecord(1, <<2, 0>>, Fill(2, 1), 0), SRecord(1, <<1, 0>>, Fill(3, 170), 0),
       SRecord(9, <<0, 0>>, <<>>, 0) >>
SortedSFile ==
    << SRecord(1, <<1, 0>>, Fill(3, 170), 0), SRecord(1, <<2, 0>>, Fill(2, 1), 0),
       SRecord(9, <<0, 0>>, <<>>, 0) >>
StageFiles ==
    { BlocksOf(parseMotorolaS(UnsortedSFile).blocks),
      BlocksOf(parseMotorolaS(SortedSFile).blocks) }

\* Regions: one that holds the blocks of the files, one protected, one away
\* from the files.
AppRegion == FlashRegion(256, 1023, FALSE)
BootRegion == FlashRegion(0, 255, TRUE)
FarRegion == FlashRegion(4096, 8191, FALSE)
StageConfigs ==
    { [FlashConfig(bs, v, k) EXCEPT !.regions = r] :
          bs \in {DEFAULT_BLOCK_SIZE, 2}, v \in BOOLEAN, k \in {<<>>, ShortKey},
          r \in {<<>>, <<BootRegion, AppRegion, FarRegion>>} }

NextStages ==
    \/ CANProtocol_initialize(DEFAULT_BAUD)
    \/ UDSClient_initialize(1)
    \/ \E cfg \in StageConfigs :
          flash.pc = "idle" /\ FlashManager_initialize(1, cfg)
    \/ \E file \in StageFiles :
          flash.runs < MaxStageRuns /\ programFlash_answered(file)
    \/ \E ok \in BOOLEAN, same \in BOOLEAN : programFlash_reply(ok, same)

SpecStages == Init /\ [][NextStages]_vars

(***************************************************************************)
(* ThreadPool (src/unnamed/part_007:10-112, thread_pool.h:111-137).  Each  *)
(* scope of queueMutex is one step.  A condition wait is the guard of the  *)
(* step that follows it.                                                   *)
(***************************************************************************)
SumExecuted(tp) ==
    LET RECURSIVE sum(_)
        sum(id) == IF id = 0 THEN 0 ELSE tp.executed[id] + sum(id - 1)
    IN  sum(MaxPoolTasks + 1)

\* enqueue: throws on a stopped pool, else queues the task and counts it.
ThreadPool_enqueue ==
    /\ threadPool.accepted + (IF threadPool.lastEnqueue.threw THEN 1 ELSE 0)
            < MaxPoolTasks
    /\ IF threadPool.stop_flag
       THEN threadPool' = [threadPool EXCEPT
                !.lastEnqueue = [called |-> TRUE, stopping |-> TRUE, threw |-> TRUE,
                                 queued |-> 0]]
       ELSE threadPool' = [threadPool EXCEPT
                !.tasks = Append(@, threadPool.accepted + 1),
                !.activeTasks = @ + 1,
                !.accepted = @ + 1,
                !.lastEnqueue = [called |-> TRUE, stopping |-> FALSE, threw |-> FALSE,
                                 queued |-> 1]]
    /\ UNCHANGED <<baseVars, dtc, obd>>

\* The worker loop, from the condition wait to the end of the first locked
\* scope: exit on a stopped pool with an empty queue, else take the front.
ThreadPool_worker_take(w) ==
    /\ threadPool.workers[w].pc = "wait"
    /\ threadPool.stop_flag \/ threadPool.tasks # <<>>
    /\ IF threadPool.stop_flag /\ threadPool.tasks = <<>>
       THEN threadPool' = [threadPool EXCEPT !.workers[w].pc = "exited"]
       ELSE threadPool' = [threadPool EXCEPT
                !.workers[w] = [pc |-> "run", task |-> Head(threadPool.tasks)],
                !.tasks = Tail(@)]
    /\ UNCHANGED <<baseVars, dtc, obd>>

\* task(), with whatever it throws caught and logged.
ThreadPool_worker_run(w) ==
    /\ threadPool.workers[w].pc = "run"
    /\ threadPool' = [threadPool EXCEPT
            !.workers[w].pc = "finish",
            !.executed[threadPool.workers[w].task] = @ + 1]
    /\ UNCHANGED <<baseVars, dtc, obd>>

\* The second locked scope: activeTasks--.
ThreadPool_worker_finish(w) ==
    /\ threadPool.workers[w].pc = "finish"
    /\ threadPool' = [threadPool EXCEPT
            !.workers[w] = [pc |-> "wait", task |-> 0],
            !.activeTasks = @ - 1,
            !.finished = @ + 1]
    /\ UNCHANGED <<baseVars, dtc, obd>>

ThreadPool_getPendingTaskCount ==
    /\ threadPool' = [threadPool EXCEPT
            !.pendingCount = [called |-> TRUE,
                              result |-> Len(threadPool.tasks) + threadPool.activeTasks,
                              accepted |-> threadPool.accepted,
                              executed |-> SumExecuted(threadPool),
                              finished |-> threadPool.finished]]
    /\ UNCHANGED <<baseVars, dtc, obd>>

\* stop(), its locked scope: return at once if the flag is set, else set it.
ThreadPool_stop_flag(tp, t) ==
    IF tp.stop_flag
    THEN [tp EXCEPT !.stopCall[t] = "returned"]
    ELSE [tp EXCEPT !.stop_flag = TRUE, !.stopCall[t] = "join"]

\* stop() (also the destructor, which only calls stop()).
ThreadPool_stop(t) ==
    /\ threadPool.stopCall[t] = "idle"
    /\ threadPool' = ThreadPool_stop_flag(threadPool, t)
    /\ UNCHANGED <<baseVars, dtc, obd>>

\* stop(), after notify_all: the join loop returns when every worker left
\* its loop.
ThreadPool_stop_join(t) ==
    /\ threadPool.stopCall[t] = "join"
    /\ \A w \in PoolThreads : threadPool.workers[w].pc = "exited"
    /\ threadPool' = [threadPool EXCEPT !.stopCall[t] = "returned"]
    /\ UNCHANGED <<baseVars, dtc, obd>>

NextPool ==
    \/ ThreadPool_enqueue
    \/ \E w \in PoolThreads :
          \/ ThreadPool_worker_take(w)
          \/ ThreadPool_worker_run(w)
          \/ ThreadPool_worker_finish(w)
    \/ ThreadPool_getPendingTaskCount
    \/ \E t \in StopCallers : ThreadPool_stop(t) \/ ThreadPool_stop_join(t)

SpecPool == Init /\ [][NextPool]_vars

(***************************************************************************)
(* OBDClient (src/unnamed/part_007:339-760).  The client registers its     *)
(* onCANMessage with the CANProtocol; a thread inside sendOBDRequest moves *)
(* through "reset" -> "send" -> "wait".  Each scope of requestMutex and    *)
(* each access to an atomic member is one step.                            *)
(***************************************************************************)
obdRest == <<udsVars, thrVars, poolVars, histVars, canHist, flashVars, dtc, threadPool>>

\* The method thread t is in returns: t is idle again, `ret` is kept.
OBD_return(o, t, result) ==
    [o EXCEPT !.threads[t] = [ObdThread("idle") EXCEPT !.ret = result]]

\* Impl::onCANMessage(canMsg) with the default OBDConfig (no ecuIds).  The
\* frames that arrive on the response id are noted for the waiting threads.
OBD_onCANMessage(o, canMsg) ==
    LET noted == [o EXCEPT !.threads =
                     [t \in ObdThreads |->
                        IF o.threads[t].pc = "wait" /\ canMsg.id = OBD_RESPONSE_ID
                        THEN [o.threads[t] EXCEPT !.delivered = Append(@, canMsg.data)]
                        ELSE o.threads[t]]]
    IN  IF canMsg.id # OBD_RESPONSE_ID \/ Len(canMsg.data) < 2 THEN noted
        ELSE IF canMsg.data[1] < OBD_POSITIVE_MIN THEN noted
        ELSE [noted EXCEPT !.pendingResponse = canMsg.data,
                           !.responseReceived = TRUE]

\* OBD_call: thread t enters sendOBDRequest(CURRENT_DATA, pid), which returns
\* {} at once on a client that is not initialized.  OBD_resume: the request
\* of thread t returned `response` and the method that made it runs on to
\* its next request or to its end.
RECURSIVE OBD_call(_, _, _)
RECURSIVE OBD_resume(_, _, _)
OBD_call(o, t, pid) ==
    IF ~o.initialized
    THEN OBD_resume([o EXCEPT !.threads[t].pid = pid], t, <<>>)
    ELSE [o EXCEPT !.threads[t].pc = "reset", !.threads[t].pid = pid]

OBD_resume(o, t, response) ==
    LET th == o.threads[t]
        Ret(op) == [NoObdRet EXCEPT !.op = op, !.pid = th.pid,
                                    !.requests = o.stats.requestsSent - th.before,
                                    !.hist = th.hist, !.running = th.running,
                                    !.delivered = th.delivered, !.ok = TRUE]
    IN  CASE th.op = "read" ->
               OBD_return(o, t, [Ret("read") EXCEPT
                                    !.param = readParameter_result(th.pid, response)])
          [] th.op = "supported" ->
               LET supported ==
                       th.acc \o (IF IsResponseFor(response, th.pid, 6)
                                  THEN parseSupportedPIDs(SubSeq(response, 3, 6), th.pid)
                                  ELSE <<>>)
                   has(p) == \E k \in 1..Len(supported) : supported[k] = p
               IN  IF th.pid = SUPPORTED_PIDS_01_20 /\ has(SUPPORTED_PIDS_21_40)
                   THEN OBD_call([o EXCEPT !.threads[t].acc = supported], t,
                                 SUPPORTED_PIDS_21_40)
                   ELSE IF th.pid # SUPPORTED_PIDS_41_60 /\ has(SUPPORTED_PIDS_41_60)
                   THEN OBD_call([o EXCEPT !.threads[t].acc = supported], t,
                                 SUPPORTED_PIDS_41_60)
                   ELSE OBD_return([o EXCEPT !.supportedPIDs = supported,
                                             !.supportedPIDsCached = TRUE,
                                             !.hist = IF th.running THEN "queried" ELSE @],
                                   t, [Ret("supported") EXCEPT !.pids = supported])
          [] OTHER ->
               LET parameters ==
                       th.acc \o (IF IsResponseFor(response, th.pid, 3)
                                  THEN <<readParameter_result(th.pid, response)>>
                                  ELSE <<>>)
               IN  IF th.idx < Len(o.monitoringPIDs)
                   THEN OBD_call([o EXCEPT !.threads[t].acc = parameters,
                                           !.threads[t].idx = th.idx + 1],
                                 t, o.monitoringPIDs[th.idx + 1])
                   ELSE [o EXCEPT !.threads[t].acc = parameters,
                                  !.threads[t].pc = "callback"]

\* A method entered by thread t: what is noted of the state at entry.
OBD_enter(o, t, op) ==
    [o EXCEPT !.threads[t] = [ObdThread("idle") EXCEPT
                                 !.op = op, !.before = o.stats.requestsSent,
                                 !.hist = o.hist, !.running = o.initialized],
              !.calls = @ + 1]

\* OBDClient::initialize(config, canProtocol) with the default config.
OBDClient_initialize ==
    /\ ~obd.terminated
    /\ IF ~canInitialized
       THEN UNCHANGED <<obd, monitorCallback, monitoring>>
       ELSE IF startMonitoring_ok
       THEN /\ monitorCallback' = ObdClient
            /\ monitoring' = TRUE
            /\ obd' = [obd EXCEPT !.canProtocol = TRUE, !.initialized = TRUE,
                                  !.hist = IF @ = "shutdown" THEN "restarted" ELSE @]
       ELSE /\ obd' = [obd EXCEPT !.canProtocol = TRUE]
            /\ UNCHANGED <<monitorCallback, monitoring>>
    /\ UNCHANGED <<canInitialized, canBaud, filters, canStats>>
    /\ UNCHANGED obdRest

\* The part of shutdown() after its stopMonitoring(): the CAN dispatch is
\* stopped and initialized is cleared.
OBD_shutdown_rest(o, t) ==
    [OBD_return(o, t, [NoObdRet EXCEPT !.op = "shutdown", !.ok = TRUE])
        EXCEPT !.initialized = FALSE,
               !.shutdowns = @ + 1,
               !.hist = IF @ \in {"queried", "restarted"} THEN "shutdown" ELSE @]

\* OBDClient::shutdown() called by thread t, up to the join of the worker if
\* the client is monitoring.
OBDClient_shutdown(t) ==
    /\ ~obd.terminated
    /\ obd.threads[t].pc = "idle"
    /\ IF obd.monitoring /\ obd.monitoringThread # 0
       THEN /\ obd' = [obd EXCEPT !.monitoring = FALSE,
                                  !.threads[t].pc = "join",
                                  !.threads[t].op = "shutdown"]
            /\ UNCHANGED monitoring
       ELSE /\ obd' = [OBD_shutdown_rest(obd, t) EXCEPT !.monitoring = FALSE]
            /\ monitoring' = IF obd.canProtocol THEN FALSE ELSE monitoring
    /\ UNCHANGED <<canInitialized, canBaud, monitorCallback, filters, canStats>>
    /\ UNCHANGED obdRest

OBDClient_getSupportedPIDs(t) ==
    /\ ~obd.terminated
    /\ obd.threads[t].pc = "idle"
    /\ LET o == OBD_enter(obd, t, "supported")
       IN  obd' = IF obd.supportedPIDsCached
                  THEN OBD_return(o, t,
                           [NoObdRet EXCEPT !.op = "supported",
                                            !.pids = obd.supportedPIDs,
                                            !.hist = obd.hist,
                                            !.running = obd.initialized,
                                            !.ok = TRUE])
                  ELSE OBD_call(o, t, SUPPORTED_PIDS_01_20)
    /\ UNCHANGED <<canVars, obdRest>>

OBDClient_readParameter(t, pid) ==
    /\ ~obd.terminated
    /\ obd.threads[t].pc = "idle"
    /\ obd' = OBD_call(OBD_enter(obd, t, "read"), t, pid)
    /\ UNCHANGED <<canVars, obdRest>>

\* sendOBDRequest: the first scope of requestMutex.
sendOBDRequest_reset(t) ==
    /\ ~obd.terminated
    /\ obd.threads[t].pc = "reset"
    /\ obd' = [obd EXCEPT !.responseReceived = FALSE, !.threads[t].pc = "send"]
    /\ UNCHANGED <<canVars, obdRest>>

\* sendOBDRequest: sendMessage and updateStats.
sendOBDRequest_send(t) ==
    /\ ~obd.terminated
    /\ obd.threads[t].pc = "send"
    /\ LET request == CANMessage(OBD_REQUEST_ID, <<CURRENT_DATA, obd.threads[t].pid>>)
       IN  IF sendMessage_ok(request)
           THEN /\ canStats' = [canStats EXCEPT !.messagesSent = @ + 1]
                /\ obd' = [obd EXCEPT !.stats.requestsSent = @ + 1,
                                      !.threads[t].pc = "wait"]
           ELSE /\ canStats' = canStats
                /\ obd' = OBD_resume([obd EXCEPT !.stats.requestsSent = @ + 1,
                                                 !.stats.errors = @ + 1], t, <<>>)
    /\ UNCHANGED <<canInitialized, canBaud, monitoring, monitorCallback, filters>>
    /\ UNCHANGED obdRest

\* sendOBDRequest: wait_for ends with responseReceived set.
sendOBDRequest_receive(t) ==
    /\ ~obd.terminated
    /\ obd.threads[t].pc = "wait"
    /\ obd.responseReceived
    /\ obd' = OBD_resume([obd EXCEPT !.stats.responsesReceived = @ + 1], t,
                         obd.pendingResponse)
    /\ UNCHANGED <<canVars, obdRest>>

\* sendOBDRequest: wait_for ends by timeout; updateStats(false, true).
sendOBDRequest_timeout(t) ==
    /\ ~obd.terminated
    /\ obd.threads[t].pc = "wait"
    /\ ~obd.responseReceived
    /\ obd' = OBD_resume([obd EXCEPT !.stats.responsesReceived = @ + 1,
                                     !.stats.timeouts = @ + 1], t, <<>>)
    /\ UNCHANGED <<canVars, obdRest>>

\* One iteration of the CAN dispatch thread with the OBD client's callback.
OBD_monitoringLoop(frame) ==
    /\ ~obd.terminated
    /\ monitoring
    /\ monitorCallback = ObdClient
    /\ IF PassFilter(filters, frame)
       THEN /\ canStats' = [canStats EXCEPT !.messagesReceived = @ + 1,
                                            !.filtersApplied = @ + 1]
            /\ obd' = OBD_onCANMessage(obd, frame)
       ELSE UNCHANGED <<canStats, obd>>
    /\ UNCHANGED <<canInitialized, canBaud, monitoring, monitorCallback, filters>>
    /\ UNCHANGED obdRest

(***************************************************************************)
(* OBD periodic monitoring: startMonitoring, stopMonitoring and the worker  *)
(* that runs Impl::monitoringLoop.  startMonitoring takes no lock, so its  *)
(* test of the flags, its stores and the creation of the worker are        *)
(* separate steps of the calling thread.                                   *)
(***************************************************************************)
LiveWorkers(o) == {w \in ObdWorkers : o.threads[w].pc \notin {"none", "exited"}}

\* startMonitoring(pids, callback, interval): the test of initialized and
\* monitoring.
OBDClient_startMonitoring(t, pids) ==
    /\ ~obd.terminated
    /\ obd.threads[t].pc = "idle"
    /\ LET o == [obd EXCEPT !.threads[t] = [ObdThread("idle") EXCEPT !.op = "start"],
                            !.starts = @ + 1]
       IN  obd' = IF ~obd.initialized \/ obd.monitoring
                  THEN OBD_return(o, t, [NoObdRet EXCEPT !.op = "start"])
                  ELSE [o EXCEPT !.threads[t].pc = "set", !.threads[t].acc = pids]
    /\ UNCHANGED <<canVars, obdRest>>

\* startMonitoring: the stores to monitoringPIDs, monitoringCallback and
\* monitoring.
startMonitoring_set(t) ==
    /\ ~obd.terminated
    /\ obd.threads[t].pc = "set"
    /\ obd' = [obd EXCEPT !.monitoringPIDs = obd.threads[t].acc,
                          !.monitoringCallback = TRUE,
                          !.monitoring = TRUE,
                          !.racing = \E u \in ObdCallers : obd.threads[u].pc = "spawn",
                          !.threads[t].pc = "spawn"]
    /\ UNCHANGED <<canVars, obdRest>>

\* startMonitoring: std::thread(&Impl::monitoringLoop, ...) starts worker w
\* and is move-assigned to monitoringThread.  Assigning to a joinable
\* std::thread calls std::terminate; when two calls assign at the same time
\* the assignment is a data race and may also replace the handle.
startMonitoring_spawn(t, w, replace) ==
    /\ ~obd.terminated
    /\ obd.threads[t].pc = "spawn"
    /\ obd.threads[w].pc = "none"
    /\ replace => obd.racing
    /\ LET started == [obd EXCEPT !.threads[w] = [ObdThread("check") EXCEPT !.op = "monitor"],
                                  !.racing = FALSE]
       IN  obd' = IF obd.monitoringThread # 0 /\ ~replace
                  THEN [started EXCEPT !.terminated = TRUE]
                  ELSE OBD_return([started EXCEPT !.monitoringThread = w], t,
                                  [NoObdRet EXCEPT !.op = "start", !.ok = TRUE])
    /\ UNCHANGED <<canVars, obdRest>>

\* stopMonitoring returns to thread t.
OBD_stop_return(o, t) ==
    [OBD_return(o, t, [NoObdRet EXCEPT !.op = "stop", !.ok = TRUE])
        EXCEPT !.stopped = LiveWorkers(o)]

\* OBDClient::stopMonitoring() called by thread t: Impl::stopMonitoring up
\* to the join.
OBDClient_stopMonitoring(t) ==
    /\ ~obd.terminated
    /\ obd.threads[t].pc = "idle"
    /\ LET o == [obd EXCEPT !.monitoring = FALSE, !.stops = @ + 1]
       IN  obd' = IF obd.monitoringThread # 0
                  THEN [o EXCEPT !.threads[t].pc = "join", !.threads[t].op = "stop"]
                  ELSE OBD_stop_return(o, t)
    /\ UNCHANGED <<canVars, obdRest>>

\* monitoringThread.join() returns to thread t: the worker has left
\* monitoringLoop.  A shutdown() goes on after it.
stopMonitoring_join(t) ==
    /\ ~obd.terminated
    /\ obd.threads[t].pc = "join"
    /\ obd.monitoringThread # 0 => obd.threads[obd.monitoringThread].pc = "exited"
    /\ LET joined == IF obd.monitoringThread = 0 THEN obd
                     ELSE [obd EXCEPT !.threads[obd.monitoringThread] = ObdThread("none"),
                                      !.monitoringThread = 0]
       IN  IF obd.threads[t].op = "shutdown"
           THEN /\ obd' = OBD_shutdown_rest(joined, t)
                /\ monitoring' = IF obd.canProtocol THEN FALSE ELSE monitoring
           ELSE /\ obd' = OBD_stop_return(joined, t)
                /\ UNCHANGED monitoring
    /\ UNCHANGED <<canInitialized, canBaud, monitorCallback, filters, canStats>>
    /\ UNCHANGED obdRest

\* Impl::monitoringLoop, worker w: the test of `monitoring` and the first
\* request of a cycle.
monitoringLoop_check(w) ==
    /\ ~obd.terminated
    /\ obd.threads[w].pc = "check"
    /\ obd' = IF ~obd.monitoring
              THEN [obd EXCEPT !.threads[w].pc = "exited"]
              ELSE LET o == [obd EXCEPT !.threads[w].acc = <<>>,
                                        !.threads[w].idx = 1,
                                        !.cycles = @ + 1]
                   IN  IF obd.monitoringPIDs = <<>>
                       THEN [o EXCEPT !.threads[w].pc = "callback"]
                       ELSE OBD_call(o, w, obd.monitoringPIDs[1])
    /\ UNCHANGED <<canVars, obdRest>>

\* Impl::monitoringLoop, worker w: the callback and the sleep at the end of
\* a cycle.
monitoringLoop_callback(w) ==
    /\ ~obd.terminated
    /\ obd.threads[w].pc = "callback"
    /\ LET called == obd.threads[w].acc # <<>> /\ obd.monitoringCallback
       IN  obd' = [obd EXCEPT !.threads[w].pc = "check",
                              !.callbacks = IF called THEN @ + 1 ELSE @,
                              !.lateCallback = @ \/ (called /\ w \in obd.stopped)]
    /\ UNCHANGED <<canVars, obdRest>>

(***************************************************************************)
(* SpecOBD: one application thread reads parameters and the supported     *)
(* PIDs from an OBD client that it may shut down and initialize again.     *)
(***************************************************************************)
\* The response of the RPM scenario, with and without the length byte in
\* front; a supported-PID bit map with PID 0x04 and PID 0x20, and the bit
\* map of the second range with PID 0x21.
RpmFrame == CANMessage(OBD_RESPONSE_ID, <<4, CURRENT_DATA_RESPONSE, ENGINE_RPM, 26, 248>>)
RpmFrameBare == CANMessage(OBD_RESPONSE_ID, <<CURRENT_DATA_RESPONSE, ENGINE_RPM, 26, 248>>)
ObdFrames ==
    { RpmFrame, RpmFrameBare,
      CANMessage(OBD_RESPONSE_ID,
                 <<CURRENT_DATA_RESPONSE, SUPPORTED_PIDS_01_20, 16, 0, 0, 1>>),
      CANMessage(OBD_RESPONSE_ID,
                 <<CURRENT_DATA_RESPONSE, SUPPORTED_PIDS_21_40, 128, 0, 0, 0>>),
      CANMessage(OBD_RESPONSE_ID + 1, <<CURRENT_DATA_RESPONSE, ENGINE_RPM, 0, 4>>) }
ObdPIDs == {ENGINE_RPM, VEHICLE_SPEED}

NextOBD ==
    \/ CANProtocol_initialize(DEFAULT_BAUD)
    \/ OBDClient_initialize
    \/ obd.shutdowns < MaxObdShutdowns /\ OBDClient_shutdown(1)
    \/ obd.calls < MaxObdCalls /\ OBDClient_getSupportedPIDs(1)
    \/ \E pid \in ObdPIDs : obd.calls < MaxObdCalls /\ OBDClient_readParameter(1, pid)
    \/ sendOBDRequest_reset(1)
    \/ sendOBDRequest_send(1)
    \/ sendOBDRequest_receive(1)
    \/ sendOBDRequest_timeout(1)
    \/ \E f \in ObdFrames :
          canStats.messagesReceived < MaxObdFrames /\ OBD_monitoringLoop(f)

SpecOBD == Init /\ [][NextOBD]_vars

(***************************************************************************)
(* SpecMonitor: two application threads start and stop the periodic        *)
(* monitoring of an initialized OBD client.                                *)
(***************************************************************************)
MonitorPIDs == {<<ENGINE_RPM>>, <<VEHICLE_SPEED, ENGINE_RPM>>}

NextMonitor ==
    \/ CANProtocol_initialize(DEFAULT_BAUD)
    \/ OBDClient_initialize
    \/ \E t \in ObdCallers, pids \in MonitorPIDs :
          obd.starts < MaxObdStarts /\ OBDClient_startMonitoring(t, pids)
    \/ \E t \in ObdCallers : startMonitoring_set(t)
    \/ \E t \in ObdCallers, w \in ObdWorkers, replace \in BOOLEAN :
          startMonitoring_spawn(t, w, replace)
    \/ \E t \in ObdCallers : obd.stops < MaxObdStops /\ OBDClient_stopMonitoring(t)
    \/ \E t \in ObdCallers : stopMonitoring_join(t)
    \/ \E t \in ObdCallers : obd.shutdowns < MaxObdShutdowns /\ OBDClient_shutdown(t)
    \/ \E w \in ObdWorkers :
          (obd.monitoring => obd.cycles < MaxObdCycles) /\ monitoringLoop_check(w)
    \/ \E w \in ObdWorkers : monitoringLoop_callback(w)
    \/ \E w \in ObdWorkers : sendOBDRequest_reset(w)
    \/ \E w \in ObdWorkers : sendOBDRequest_send(w)
    \/ \E w \in ObdWorkers : sendOBDRequest_receive(w)
    \/ \E w \in ObdWorkers : sendOBDRequest_timeout(w)
    \/ \E f \in {RpmFrame, RpmFrameBare} :
          canStats.messagesReceived < MaxObdFrames /\ OBD_monitoringLoop(f)

SpecMonitor == Init /\ [][NextMonitor]_vars

(***************************************************************************)
(* OBDDTC conversions: a caller converts a string to its byte pair and     *)
(* the pair back (as readStoredDTCs does with the pairs of a response), or *)
(* converts a byte pair received from the ECU.                             *)
(***************************************************************************)
OBDDTC_dtcStringToBytes(dtcString) ==
    /\ dtc.pc = "idle"
    /\ dtc' = [dtc EXCEPT !.pc = "encoded", !.str = dtcString,
                          !.bytes = dtcStringToBytes(dtcString)]
    /\ UNCHANGED <<baseVars, threadPool, obd>>

OBDDTC_bytesToDTCString(dtcBytes) ==
    /\ dtc.pc \in {"idle", "encoded"}
    /\ dtc.pc = "encoded" => dtcBytes = dtc.bytes
    /\ dtc' = [dtc EXCEPT !.pc = IF dtc.pc = "idle" THEN "decoded" ELSE "roundtrip",
                          !.bytes = dtcBytes,
                          !.decoded = bytesToDTCString(dtcBytes)]
    /\ UNCHANGED <<baseVars, threadPool, obd>>

\* Well-formed codes [PCBU][0-9A-F]{4}, the digits taken from a sample that
\* has decimal digits and letters.
DTCDigits == {0, 1, 7, 9, 10, 15}
DTCStrings ==
    { <<c, d1, d2, d3, d4>> : c \in {CHAR_P, 12, 11, CHAR_U},
                             d1 \in {0, 1, 3, 10}, d2 \in DTCDigits,
                             d3 \in DTCDigits, d4 \in DTCDigits }
DTCPairs == 0..(UINT16_MOD - 1)

NextDTC ==
    \/ dtc.pc = "idle" /\ \E s \in DTCStrings : OBDDTC_dtcStringToBytes(s)
    \/ dtc.pc = "idle" /\ \E b \in DTCPairs : OBDDTC_bytesToDTCString(b)
    \/ dtc.pc = "encoded" /\ OBDDTC_bytesToDTCString(dtc.bytes)

SpecDTC == Init /\ [][NextDTC]_vars

(***************************************************************************)
(* SpecOverlap: two application threads call readDataByIdentifier on the   *)
(* same initialized UDS client, so that their sendRequest calls may        *)
(* overlap; the dispatch thread notes which callers had their request on   *)
(* the bus when it stored a response.                                      *)
(***************************************************************************)
\* The call of thread t during which the dispatch thread last stored a
\* response for a request of t that was already on the bus (0: none).
arrivedIn(t) ==
    IF "arrived" \in DOMAIN dispatched THEN dispatched.arrived[t] ELSE 0

\* The iteration of Impl::monitoringLoop, noting for each thread whether its
\* request was on the bus when onCANMessage stored the frame.
monitoringLoop_arrival(frame, indet, outcome) ==
    /\ monitoringLoop_iteration(frame, indet, outcome)
    /\ LET stored == /\ PassFilter(filters, frame)
                     /\ alive[monitorCallback]
                     /\ frame.id = ResponseId(monitorCallback)
       IN  dispatched' =
             [seen |-> TRUE, frame |-> frame, filters |-> filters,
              passed |-> PassFilter(filters, frame),
              arrived |-> [t \in Threads |->
                             IF stored /\ pc[t] = "wait"
                                       /\ call[t].client = monitorCallback
                             THEN ncalls[t] + 1
                             ELSE arrivedIn(t)]]

NextOverlap ==
    \/ CANProtocol_initialize(DEFAULT_BAUD)
    \/ UDSClient_initialize(1)
    \/ \E t \in Threads :
          ncalls[t] < MaxOverlapCalls /\ Invoke(t, 1, "read", VIN_DID, <<>>)
    \/ \E t \in Threads, i \in Indeterminate : sendRequest_enter(t, i)
    \/ \E t \in Threads, i \in Indeterminate : sendRequest_send(t, i)
    \/ \E t \in Threads, i \in Indeterminate : sendRequest_timeout(t, i)
    \/ \E t \in Threads : sendRequest_receive(t)
    \/ \E f \in ExchangeFrames, i \in Indeterminate :
          /\ canStats.messagesReceived < MaxOverlapFrames
          /\ monitoringLoop_arrival(f, i, "survived")

SpecOverlap == Init /\ [][NextOverlap]_vars

(***************************************************************************)
(* SpecLive: a client that its owner initializes once and may shut down,   *)
(* with the scheduling the code relies on: a thread inside sendRequest     *)
(* keeps running, the deadline of wait_for passes, and a worker of the     *)
(* global thread pool (which nothing in the repository stops) takes a      *)
(* queued task.                                                            *)
(***************************************************************************)
NextLive ==
    \/ CANProtocol_initialize(DEFAULT_BAUD)
    \/ initResult[1] # "ok" /\ UDSClient_initialize(1)
    \/ UDSClient_shutdown(1)
    \/ \E t \in AppThreads : ncalls[t] < MaxLiveCalls /\ Invoke(t, 1, "read", VIN_DID, <<>>)
    \/ sendRequestAsync(1, VIN_DID)
    \/ \E t \in PoolWorkers : WorkerTake(t)
    \/ \E t \in Threads, i \in Indeterminate : sendRequest_enter(t, i)
    \/ \E t \in Threads, i \in Indeterminate : sendRequest_send(t, i)
    \/ \E t \in Threads, i \in Indeterminate : sendRequest_timeout(t, i)
    \/ \E t \in Threads : sendRequest_receive(t)
    \/ \E f \in {SimulatedFrame}, i \in Indeterminate :
          canStats.messagesReceived < MaxLiveFrames /\ monitoringLoop(f, i, "survived")

\* The steps of thread t inside sendRequest and, for a pool worker, the take
\* of the next task.
ThreadStep(t) ==
    \/ t \in PoolWorkers /\ WorkerTake(t)
    \/ \E i \in Indeterminate : sendRequest_enter(t, i)
    \/ \E i \in Indeterminate : sendRequest_send(t, i)
    \/ \E i \in Indeterminate : sendRequest_timeout(t, i)
    \/ sendRequest_receive(t)

SpecLive ==
    /\ Init
    /\ [][NextLive]_vars
    /\ \A t \in Threads : WF_vars(ThreadStep(t))

(***************************************************************************)
(* SpecChain: one application thread calls getSupportedPIDs on a running   *)
(* OBD client while the ECU answers the bucket requests.                   *)
(***************************************************************************)
\* The bit maps of the buckets 0x00 (PID 0x04 and 0x20), 0x20 (PID 0x21 and
\* 0x40) and 0x40 (PID 0x60), and a bucket 0x00 that reports PID 0x04 only.
ChainFrames ==
    { CANMessage(OBD_RESPONSE_ID,
                 <<CURRENT_DATA_RESPONSE, SUPPORTED_PIDS_01_20, 16, 0, 0, 1>>),
      CANMessage(OBD_RESPONSE_ID,
                 <<CURRENT_DATA_RESPONSE, SUPPORTED_PIDS_21_40, 128, 0, 0, 1>>),
      CANMessage(OBD_RESPONSE_ID,
                 <<CURRENT_DATA_RESPONSE, SUPPORTED_PIDS_41_60, 0, 0, 0, 1>>),
      CANMessage(OBD_RESPONSE_ID,
                 <<CURRENT_DATA_RESPONSE, SUPPORTED_PIDS_01_20, 16, 0, 0, 0>>) }

NextChain ==
    \/ CANProtocol_initialize(DEFAULT_BAUD)
    \/ OBDClient_initialize
    \/ obd.calls < MaxChainCalls /\ OBDClient_getSupportedPIDs(1)
    \/ sendOBDRequest_reset(1)
    \/ sendOBDRequest_send(1)
    \/ sendOBDRequest_receive(1)
    \/ sendOBDRequest_timeout(1)
    \/ \E f \in ChainFrames :
          canStats.messagesReceived < MaxChainFrames /\ OBD_monitoringLoop(f)

SpecChain == Init /\ [][NextChain]_vars

(***************************************************************************)
(* SpecHex: an Intel HEX file of up to MaxHexRecords records with correct  *)
(* checksums is loaded into a new FlashFile and validated.                 *)
(***************************************************************************)
\* The records a file is made of: data at 0x0100 and, contiguous with it,
\* at 0x0102; data at 0x0200; a data record with no bytes at 0x0200; an
\* extended linear address record (upper address 0x0001); end of file.
HexRecords ==
    { [type |-> 0, address |-> 256, data |-> <<170, 171>>],
      [type |-> 0, address |-> 258, data |-> <<187, 188>>],
      [type |-> 0, address |-> 512, data |-> <<204>>],
      [type |-> 0, address |-> 512, data |-> <<>>],
      [type |-> 4, address |-> 0, data |-> <<0, 1>>],
      [type |-> 1, address |-> 0, data |-> <<>>] }

HexLine(r) == IntelRecord(r.type, r.address, r.data, 0)

HexFiles == UNION { [1..n -> { HexLine(r) : r \in HexRecords }] : n \in 0..MaxHexRecords }

NextHex ==
    \/ \E f \in HexFiles :
          ~flashFile.loadCalled /\ FlashFile_loadFromData(f, "INTEL_HEX")
    \/ flashFile.loadCalled /\ FlashFile_validate

SpecHex == Init /\ [][NextHex]_vars

(***************************************************************************)
(* SpecUpdate: the configuration of a CAN protocol in use is updated;      *)
(* the protocol is never shut down from outside.                           *)
(***************************************************************************)
\* The return value of CANProtocol::updateConfiguration called now.
updateConfiguration_result(baudRate) ==
    ~monitoring /\ isValidCANBaudRate(baudRate)

\* CANProtocol::updateConfiguration: refused while monitoring; otherwise an
\* initialized protocol is shut down (no monitoring to stop) and initialize
\* is called with the new configuration, which stores nothing when the baud
\* rate is invalid.
CANProtocol_updateConfiguration(baudRate) ==
    /\ ub # "crashed"
    /\ UNCHANGED <<canHist, flashVars, obdVars>>
    /\ IF monitoring
       THEN UNCHANGED <<canBaud, canInitialized>>
       ELSE LET wasInitialized == canInitialized
                afterShutdown == IF wasInitialized THEN FALSE ELSE canInitialized
            IN  IF isValidCANBaudRate(baudRate)
                THEN /\ canBaud' = baudRate
                     /\ canInitialized' = TRUE
                ELSE /\ canBaud' = canBaud
                     /\ canInitialized' = afterShutdown
    /\ UNCHANGED <<monitoring, monitorCallback, filters, canStats>>
    /\ UNCHANGED <<udsVars, thrVars, poolVars, histVars>>

UpdateBauds == BaudRates \cup {250000}

NextUpdate ==
    \/ \E b \in BaudRates : CANProtocol_initialize(b)
    \/ UDSClient_initialize(1)
    \/ UDSClient_shutdown(1)
    \/ \E m \in SentFrames :
          canStats.messagesSent < MaxSent /\ CANProtocol_sendMessage(m)
    \/ \E b \in UpdateBauds : CANProtocol_updateConfiguration(b)

SpecUpdate == Init /\ [][NextUpdate]_vars

(***************************************************************************)
(* SpecPIDs: isPIDSupported is asked about one PID of one supported-PID    *)
(* bitmap.                                                                 *)
(***************************************************************************)
isPIDSupported_call(supportedPIDs, pid) ==
    /\ dtc.pc = "idle"
    /\ dtc' = [dtc EXCEPT !.pc = "checked", !.bitmap = supportedPIDs, !.pid = pid,
                          !.supported = isPIDSupported(supportedPIDs, pid)]
    /\ UNCHANGED <<threadPool, obd>>
    /\ UNCHANGED baseVars

\* Bitmaps of four bytes: none, one or all bits set, one byte full, and the
\* answer of the simulated ECU.
Bitmaps ==
    { [i \in 1..4 |-> IF i = (k \div 8) + 1 THEN 2 ^ (7 - (k % 8)) ELSE 0] : k \in 0..31 }
    \cup { [i \in 1..4 |-> IF i = b THEN 255 ELSE 0] : b \in 1..4 }
    \cup { <<0, 0, 0, 0>>, <<255, 255, 255, 255>>, <<190, 31, 168, 19>> }

BitmapPIDs == 1..32

NextPIDs ==
    \E bitmap \in Bitmaps, p \in BitmapPIDs : isPIDSupported_call(bitmap, p)

SpecPIDs == Init /\ [][NextPIDs]_vars

(***************************************************************************)
(* SpecTester: application threads send tester-present requests and ask    *)
(* whether the ECU is responsive.  The ECU answers a tester-present        *)
(* request only when the request does not suppress the positive response.  *)
(***************************************************************************)
\* UDSClient::sendTesterPresent(suppressResponse): the sub-function carries
\* the suppress flag; the result is taken from the response of sendRequest.
UDSClient_sendTesterPresent(t, c, suppressResponse) ==
    Invoke(t, c, "tester", IF suppressResponse THEN 128 ELSE 0, <<>>)

\* ECU::isResponsive: with an initialized client the result is that of
\* sendTesterPresent(true); without one the ECU is assumed responsive.
ECU_isResponsive(t, c) ==
    IF initialized[c]
    THEN UDSClient_sendTesterPresent(t, c, TRUE)
    ELSE /\ ub # "crashed"
         /\ UNCHANGED <<canHist, flashVars, obdVars>>
         /\ pc[t] = "idle"
         /\ alive[c]
         /\ ret' = [ret EXCEPT ![t] =
                      [NoRet EXCEPT !.op = "tester", !.client = c, !.arg = 128,
                                    !.kind = "assumed", !.ok = TRUE]]
         /\ ncalls' = [ncalls EXCEPT ![t] = @ + 1]
         /\ UNCHANGED <<pc, call>>
         /\ UNCHANGED <<canVars, udsVars, poolVars, histVars>>

\* The positive response to a tester-present request with sub-function 0.
TesterPresentFrame == CANMessage(DEFAULT_RESPONSE_ID, <<2, TESTER_PRESENT + 64, 0>>)

\* A request is on the bus whose positive response is not suppressed.
AnswerExpected ==
    \E t \in Threads : pc[t] = "wait" /\ call[t].op = "tester" /\ call[t].arg = 0

NextTester ==
    \/ CANProtocol_initialize(DEFAULT_BAUD)
    \/ initResult[1] # "ok" /\ UDSClient_initialize(1)
    \/ UDSClient_shutdown(1)
    \/ \E t \in AppThreads, suppress \in BOOLEAN :
          ncalls[t] < MaxTesterCalls /\ UDSClient_sendTesterPresent(t, 1, suppress)
    \/ \E t \in AppThreads : ncalls[t] < MaxTesterCalls /\ ECU_isResponsive(t, 1)
    \/ \E t \in Threads, i \in Indeterminate : sendRequest_enter(t, i)
    \/ \E t \in Threads, i \in Indeterminate : sendRequest_send(t, i)
    \/ \E t \in Threads, i \in Indeterminate : sendRequest_timeout(t, i)
    \/ \E t \in Threads : sendRequest_receive(t)
    \/ \E i \in Indeterminate :
          /\ canStats.messagesReceived < MaxTesterFrames
          /\ AnswerExpected
          /\ monitoringLoop(TesterPresentFrame, i, "survived")

SpecTester == Init /\ [][NextTester]_vars

(***************************************************************************)
(* Properties.                                                             *)
(***************************************************************************)
\* A completed call of thread t whose sendRequest returned a success.
ReturnedOk(t) == ret[t].kind # "none" /\ ~ret[t].msg.isNegativeResponse

\* C1: sendRequest never returns a response that carries NRC 0x78 (response
\* pending) to its caller: the pending responses are absorbed and the final
\* response is the one returned.  (Spec)
C1_PendingNeverReturned ==
    \A t \in Threads :
        ret[t].kind = "response" =>
            ~(ret[t].msg.isNegativeResponse
              /\ ret[t].msg.negativeResponseCode = RESPONSE_PENDING)

\* C2: requests of one client are serialized: at no time have two threads
\* put a request of the same client on the bus without having returned
\* from sendRequest.  (Spec)
C2_RequestsSerialized ==
    \A c \in Clients :
        Cardinality({t \in Threads : pc[t] = "wait" /\ call[t].client = c}) <= 1

\* C3: every sendRequest call that returns a non-negative result returns a
\* message in positive-response form whose service is the service of the
\* request that was sent.  (Spec)
C3_OkIsPositiveForRequest ==
    \A t \in Threads :
        ReturnedOk(t) =>
            /\ ret[t].msg.isResponse
            /\ ret[t].msg.service = ret[t].req.service

\* C4: the cached session changes only in a step in which a
\* startDiagnosticSession call takes a positive response to service 0x10.
\* (SpecSession)
C4_SessionOnlyByPositive0x10 ==
    [][\A c \in Clients :
          currentSession'[c] # currentSession[c] =>
              \E t \in Threads :
                  /\ call[t].op = "session" /\ call[t].client = c
                  /\ pc[t] = "wait" /\ responseReceived[c]
                  /\ pendingResponse[c].isResponse
                  /\ pendingResponse[c].service = DIAGNOSTIC_SESSION_CONTROL]_vars

\* C5: once a session change succeeded, a level unlocked before it is locked
\* again: a read that needs the level returns no data until the level has
\* been unlocked again.  Reading the VIN needs SecurityLevel.  (SpecSecurity)
C5_SessionChangeRelocks ==
    \A t \in Threads :
        (ret[t].op = "read" /\ SecurityLevel \in relocked[ret[t].client]) =>
            ret[t].data = <<>>

\* C6: after resetECU took a positive response to service 0x11 the cached
\* session is Default.  (SpecSession)
C6_ResetRestoresDefault ==
    \A t \in Threads :
        (/\ ret[t].op = "reset" /\ ret[t].ok
         /\ ret[t].msg.isResponse /\ ret[t].msg.service = ECU_RESET) =>
            currentSession[ret[t].client] = DEFAULT

\* C7: startDiagnosticSession(s) returns true and leaves the cached session
\* at s when sendRequest returned a non-negative response; it returns false
\* and leaves the cached session as it was before the call when sendRequest
\* returned a negative response, a failed send or a timeout.  (SpecSession)
C7_SessionControl ==
    \A t \in Threads :
        ret[t].op = "session" =>
            IF ret[t].msg.isNegativeResponse
            THEN ~ret[t].ok /\ currentSession[ret[t].client] = ret[t].before
            ELSE ret[t].ok /\ currentSession[ret[t].client] = ret[t].arg

\* C7 witness: a session change to Extended succeeded and a later
\* startDiagnosticSession(Default) timed out.
C7_Witness ==
    \E t \in Threads :
        /\ ret[t].op = "session" /\ ret[t].kind = "timeout"
        /\ ret[t].arg = DEFAULT /\ ret[t].before = EXTENDED_DIAGNOSTIC

\* C8: clients with distinct id pairs are independent on one CANProtocol:
\* initialize never fails because another client is attached, and while the
\* dispatch thread runs every initialized client is a sink of it.
\* (SpecClients)
C8_ClientsIndependent ==
    /\ \A c \in Clients : initResult[c] # "monitor_failed"
    /\ \A c \in Clients :
          (alive[c] /\ initialized[c] /\ monitoring) => monitorCallback = c

\* C9: a sendRequest that was waiting when shutdown ran returns a cancelled
\* result.  (Spec)
C9_ShutdownCancels ==
    \A t \in Threads :
        (shutdownInWait[t] /\ pc[t] = "idle") => ret[t].kind = "cancelled"

\* C10: the dispatch thread never invokes the handler of a client that was
\* destroyed or shut down.  (SpecClients)
C10_NoHandlerAfterEnd ==
    /\ ub = "none"
    /\ \A c \in Clients :
          (monitoring /\ monitorCallback = c /\ alive[c]) => initialized[c]


\* The sequence numbers of the transfer_data requests programFlash has issued.
TransferSeqs(log) ==
    LET idx == {j \in 1..Len(log) : log[j].op = "transfer"}
    IN  {<<j, log[j].seq>> : j \in idx}

C12_CleanupOnFailure ==
    (flash.pc = "failed" /\ Len(flash.log) >= 2)
        => /\ ret[flash.thread].op = "session"
           /\ ret[flash.thread].arg = DEFAULT

C14_TwoChunksWritten ==
    ( /\ flash.pc \in {"done", "failed"}
      /\ flash.initialized /\ initialized[1]
      /\ flash.blocks = OneBlock512
      /\ flash.config = FlashConfig(DEFAULT_BLOCK_SIZE, TRUE, ShortKey)
      /\ \E j \in 1..Len(flash.log) : flash.log[j].op = "download"
      /\ stats[1].negativeResponses = 0 /\ stats[1].timeouts = 0 )
        => /\ flash.pc = "done"
           /\ {e[2] : e \in TransferSeqs(flash.log)} = {1, 2}
           /\ Cardinality(TransferSeqs(flash.log)) = 2
           /\ flash.stats.blocksWritten = 1
           /\ flash.stats.bytesWritten = 512
           /\ flash.stats.blocksFailed = 0


\* A filter matches a frame: same id kind and equal ids under the mask.
FilterMatch(filter, frame) ==
    /\ frame.extended = filter.extended
    /\ BitAnd(frame.id, filter.mask) = BitAnd(filter.id, filter.mask)

\* The verdict of the first matching filter; accept when none matches.
FirstMatchVerdict(fs, frame) ==
    LET hits == {i \in 1..Len(fs) : FilterMatch(fs[i], frame)}
    IN  IF hits = {} THEN TRUE
        ELSE fs[CHOOSE i \in hits : \A j \in hits : i <= j].passThrough

\* C15: with a non-empty filter set, a received frame is delivered exactly
\* when the first filter that matches it is an Accept filter, or when no
\* filter matches it.
C15_FirstMatchDecides ==
    (dispatched.seen /\ dispatched.filters # <<>>)
        => dispatched.passed = FirstMatchVerdict(dispatched.filters, dispatched.frame)

\* C16: with exactly one Accept filter (pattern P, mask M, kind K) installed,
\* a received frame F is delivered iff F.kind = K and (F.id & M) = (P & M).
C16_SingleAcceptFilter ==
    ( /\ dispatched.seen
      /\ Len(dispatched.filters) = 1
      /\ dispatched.filters[1].passThrough )
        => dispatched.passed = FilterMatch(dispatched.filters[1], dispatched.frame)

\* One Accept filter for 11-bit frames was installed and a 29-bit frame with
\* the same id was received and not delivered.
C16_Witness ==
    /\ dispatched.seen
    /\ Len(dispatched.filters) = 1
    /\ dispatched.filters[1].passThrough
    /\ ~dispatched.filters[1].extended
    /\ dispatched.frame.extended
    /\ dispatched.frame.id = dispatched.filters[1].id
    /\ ~dispatched.passed

\* C17: sendMessage returns true exactly for a frame of at most 8 bytes whose
\* id fits its kind, on an initialized protocol; then the sent counter is one
\* higher, and after a false result no counter has changed.
C17_SendValidatesFrame ==
    sent.called
        => /\ sent.result =
                ( /\ sent.wasInitialized
                  /\ Len(sent.message.data) <= 8
                  /\ sent.message.id <= (IF sent.message.extended
                                         THEN 536870911 ELSE 2047) )
           /\ sent.result =>
                sent.after = [sent.before EXCEPT !.messagesSent = @ + 1]
           /\ ~sent.result => sent.after = sent.before

\* A frame of nine bytes was refused by an initialized protocol.
C17_Witness ==
    /\ sent.called
    /\ sent.wasInitialized
    /\ Len(sent.message.data) > 8
    /\ ~sent.result
    /\ sent.after = sent.before


\* The addresses a block occupies, without wrapping: <<carry, upper, lower>>
\* of its first and of its last byte.
FirstByte(b) == <<0, b.address[1], b.address[2]>>
LastByte(b) == Add64(b.address, Len(b.data) - 1)
Le64(a, b) ==
    \/ a[1] < b[1]
    \/ a[1] = b[1] /\ a[2] < b[2]
    \/ a[1] = b[1] /\ a[2] = b[2] /\ a[3] <= b[3]
RangesOverlap(b1, b2) ==
    Le64(FirstByte(b1), LastByte(b2)) /\ Le64(FirstByte(b2), LastByte(b1))
PairwiseDisjoint(blocks) ==
    \A i \in 1..Len(blocks), j \in 1..Len(blocks) :
        i < j => ~RangesOverlap(blocks[i], blocks[j])

\* C18: after loadFromData has returned true, any two distinct blocks of the
\* file have disjoint address ranges.
C18_ParsedBlocksDisjoint ==
    (flashFile.loadCalled /\ flashFile.loaded) => PairwiseDisjoint(flashFile.blocks)

\* C19: validate returns true exactly when the file has a block and its
\* blocks are pairwise disjoint, also for blocks at the top of the 32-bit
\* address space.
C19_ValidateDetectsOverlap ==
    flashFile.validateCalled
        => flashFile.valid = (flashFile.blocks # <<>> /\ PairwiseDisjoint(flashFile.blocks))

\* The bytes of a record line after its mark.
RecordBytes(line) ==
    [k \in 1..((Len(line) - 1) \div 2) |-> line[2 * k] * 16 + line[2 * k + 1]]

\* C20: loading an Intel HEX file fails when one of its records, up to the
\* end-of-file record, has a wrong checksum (the sum of its bytes, checksum
\* included, is not 0 modulo 256).
C20_ChecksumEnforced ==
    ( /\ flashFile.loadCalled
      /\ flashFile.format = "INTEL_HEX"
      /\ \E k \in 1..Len(flashFile.input) :
            /\ flashFile.input[k][1] = CHAR_COLON
            /\ SumBytes(RecordBytes(flashFile.input[k])) % 256 # 0
            /\ \A j \in 1..(k - 1) : RecordBytes(flashFile.input[j])[4] # 1 )
        => ~flashFile.loaded

\* C23: converting a well-formed DTC string [PCBU][0-9A-F]{4} to its byte
\* pair and the pair back to a string gives the string again.  (SpecDTC)
C23_DTCRoundTrip ==
    dtc.pc = "roundtrip" => dtc.decoded = dtc.str

\* The string the encoding table gives for a pair: the category letter and
\* the four digits held in bits 13:12, 11:8, 7:4 and 3:0.
BCDString(dtcBytes) ==
    <<categoryOf(dtcBytes), (dtcBytes \div 4096) % 4, (dtcBytes \div 256) % 16,
      (dtcBytes \div 16) % 16, dtcBytes % 16>>

\* C24: bytesToDTCString decodes every 16-bit pair into five characters:
\* the letter chosen by bits 15:14 and the four BCD digits of bits 13:0, so
\* that 0x0171 decodes to "P0171".  (SpecDTC)
C24_DecodesBCDDigits ==
    dtc.pc = "decoded" =>
        /\ Len(dtc.decoded) = DTC_LENGTH
        /\ dtc.decoded = BCDString(dtc.bytes)

\* C26: stop (and the destructor, which calls it) waits for the tasks: when
\* a stop call has returned, every task enqueue accepted has run exactly
\* once; no task runs twice; and an enqueue on a stopped pool throws and
\* queues nothing.  (SpecPool)
C26_StopWaitsForTasks ==
    /\ \A t \in StopCallers :
          threadPool.stopCall[t] = "returned" =>
              \A id \in 1..threadPool.accepted : threadPool.executed[id] = 1
    /\ \A id \in 1..(MaxPoolTasks + 1) : threadPool.executed[id] <= 1
    /\ (threadPool.lastEnqueue.called /\ threadPool.lastEnqueue.stopping) =>
          (threadPool.lastEnqueue.threw /\ threadPool.lastEnqueue.queued = 0)

\* C27: getPendingTaskCount returns the number of tasks that enqueue
\* accepted and that have not finished: at most the accepted tasks whose
\* worker has not yet counted them down, at least those that have not yet
\* run.  (SpecPool)
C27_PendingCountIsPending ==
    threadPool.pendingCount.called =>
        /\ threadPool.pendingCount.result
              <= threadPool.pendingCount.accepted - threadPool.pendingCount.finished
        /\ threadPool.pendingCount.result
              >= threadPool.pendingCount.accepted - threadPool.pendingCount.executed

\* The requests of a complete run in stage order, each as <<op, block>>:
\* the session request, the unlock if a key is configured, for each block
\* its download, its chunks and its exit, and then the reads of the
\* verification if verifyAfterWrite is set.
RECURSIVE BlockStages(_, _, _)
BlockStages(blocks, blockSize, i) ==
    IF i > Len(blocks) THEN <<>>
    ELSE LET chunks == (blocks[i].size + blockSize - 1) \div blockSize
         IN  <<<<"download", i>>>> \o [k \in 1..chunks |-> <<"transfer", i>>]
             \o <<<<"exit", i>>>> \o BlockStages(blocks, blockSize, i + 1)

StagesOf(config, blocks) ==
    <<<<"session", 0>>>>
    \o (IF config.securityKey # <<>> THEN <<<<"unlock", 0>>>> ELSE <<>>)
    \o BlockStages(blocks, config.blockSize, 1)
    \o (IF config.verifyAfterWrite
        THEN [i \in 1..Len(blocks) |-> <<"verify", i>>] ELSE <<>>)

RegionOverlapsFile(region, blocks) ==
    \E i \in 1..Len(blocks) :
        /\ blocks[i].address <= region.endAddress
        /\ region.startAddress <= blocks[i].address + blocks[i].size - 1

\* C29: with eraseBeforeWrite set, programFlash has sent, when it sends its
\* first request_download, one erase request for each configured region that
\* is not protected and overlaps the flash file.  (SpecStages)
C29_EraseBeforeDownload ==
    (/\ flash.config.eraseBeforeWrite
     /\ \E j \in 1..Len(flash.log) : flash.log[j].op = "download") =>
        LET first == CHOOSE j \in 1..Len(flash.log) :
                        /\ flash.log[j].op = "download"
                        /\ \A k \in 1..(j - 1) : flash.log[k].op # "download"
            erased == {k \in 1..(first - 1) : flash.log[k].op = "erase"}
            toErase == {r \in 1..Len(flash.config.regions) :
                          /\ ~flash.config.regions[r].isProtected
                          /\ RegionOverlapsFile(flash.config.regions[r],
                                                flash.blocks)}
        IN  Cardinality(erased) = Cardinality(toErase)

\* C30: programFlash writes the blocks in ascending address order, whatever
\* their order in the file: when it requests the download of a block, every
\* block of the file with a lower address has been requested before.
\* (SpecStages)
C30_AscendingAddressOrder ==
    \A k \in 1..Len(flash.log) :
        flash.log[k].op = "download" =>
            \A b \in 1..Len(flash.blocks) :
                flash.blocks[b].address < flash.blocks[flash.log[k].block].address
                    => \E j \in 1..(k - 1) :
                          /\ flash.log[j].op = "download"
                          /\ flash.log[j].block = b

\* C22: the supported-PID result is cached until the client is shut down: a
\* getSupportedPIDs call on a running client that follows an earlier one
\* with no shutdown in between sends no request, and the first call after a
\* shutdown and a new initialize sends the query again.  (SpecOBD)
C22_CacheUntilShutdown ==
    \A t \in ObdCallers :
        LET r == obd.threads[t].ret
        IN  (r.op = "supported" /\ r.running) =>
                /\ r.hist = "queried" => r.requests = 0
                /\ r.hist = "restarted" => r.requests >= 1

\* C25: readParameter(ENGINE_RPM) whose request was sent and during whose
\* wait the transport delivered the frame 04 41 0C 1A F8 on the response id
\* returns the value 1726 with the unit RPM.  (SpecOBD)
C25_RpmScenario ==
    \A t \in ObdCallers :
        LET r == obd.threads[t].ret
        IN  (/\ r.op = "read"
             /\ r.pid = ENGINE_RPM
             /\ r.requests = 1
             /\ r.delivered = <<RpmFrame.data>>) =>
                /\ r.param.value.num = 1726 * r.param.value.den
                /\ r.param.unit = "RPM"

\* C21: OBD periodic monitoring has at most one worker per client at any
\* time, also when startMonitoring is called from several threads at once;
\* and once stopMonitoring has returned, every worker started before has
\* exited and the callback is not invoked again by it.  (SpecMonitor)
C21_SingleWorkerCooperativeStop ==
    /\ Cardinality(LiveWorkers(obd)) <= 1
    /\ obd.stopped = {}
    /\ ~obd.lateCallback

\* C31: a response frame is returned by at most one sendRequest call: when
\* each thread has made one call on the same client and both calls returned
\* a response, the dispatch thread has delivered at least two frames.
\* (SpecOverlap)
C31_FrameReturnedOnce ==
    \A t1, t2 \in Threads :
        (/\ t1 # t2
         /\ ncalls[t1] = 1 /\ ncalls[t2] = 1
         /\ ret[t1].kind = "response" /\ ret[t2].kind = "response"
         /\ ret[t1].client = ret[t2].client) =>
            canStats.messagesReceived >= 2

\* C32: no response is lost between sending and waiting: a sendRequest call
\* during which the dispatch thread stored a response frame after the
\* request had been put on the bus does not return a timeout.  (SpecOverlap)
C32_NoLostResponse ==
    \A t \in Threads :
        (ret[t].kind = "timeout" /\ ncalls[t] >= 1) => arrivedIn(t) # ncalls[t]

C34_StatsBalance ==
    \A c \in Clients :
        (\A t \in Threads : pc[t] = "idle") =>
            stats[c].requestsSent = stats[c].responsesReceived + stats[c].timeouts

\* The buckets of the supported-PID chain after 0x00, and the number of
\* leading buckets of the chain whose PID is in `pids`.
ChainBuckets == <<32, 64, 96, 128, 160, 192>>
RECURSIVE ChainPrefix(_, _)
ChainPrefix(pids, k) ==
    IF k > Len(ChainBuckets) \/ ~(\E j \in 1..Len(pids) : pids[j] = ChainBuckets[k])
    THEN 0
    ELSE 1 + ChainPrefix(pids, k + 1)

\* C35: a getSupportedPIDs call on a running client that queries the ECU
\* requests bucket 0x00 and then each next bucket of the chain 0x20, 0x40,
\* 0x60, 0x80, 0xA0, 0xC0 exactly as long as the bucket queried before it
\* reported that bucket's PID: the number of its requests is one more than
\* the number of leading chain buckets found in its result.  (SpecChain)
C35_ChainFollowed ==
    \A t \in ObdCallers :
        LET r == obd.threads[t].ret
        IN  (r.op = "supported" /\ r.running /\ r.requests >= 1) =>
                r.requests = 1 + ChainPrefix(r.pids, 1)

\* The record a line of a SpecHex file was made of.
RecordOfLine(line) == CHOOSE r \in HexRecords : HexLine(r) = line

\* The records of a file up to its first end-of-file record.
RECURSIVE RecordsBeforeEOF(_)
RecordsBeforeEOF(lines) ==
    IF lines = <<>> \/ RecordOfLine(Head(lines)).type = 1 THEN <<>>
    ELSE <<RecordOfLine(Head(lines))>> \o RecordsBeforeEOF(Tail(lines))

\* The maximal runs of address-contiguous consecutive data records, each as
\* the address of its first record and the data of its records in order.
\* `base` is the upper address in force, `runs` the runs so far (the last
\* one is still open).
RECURSIVE RunsFrom(_, _, _)
RunsFrom(records, base, runs) ==
    IF records = <<>> THEN runs
    ELSE LET r == Head(records)
             full == Add32(U32(base, 0), r.address)
             last == runs[Len(runs)]
             contiguous ==
                 /\ runs # <<>>
                 /\ <<0, full[1], full[2]>> = Add64(last.address, Len(last.data))
         IN  CASE r.type = 4 ->
                    RunsFrom(Tail(records), r.data[1] * 256 + r.data[2], runs)
               [] r.type = 0 /\ contiguous ->
                    RunsFrom(Tail(records), base,
                             [runs EXCEPT ![Len(runs)].data = @ \o r.data])
               [] r.type = 0 ->
                    RunsFrom(Tail(records), base,
                             Append(runs, FlashBlock(full, r.data)))
               [] OTHER -> RunsFrom(Tail(records), base, runs)

RunsOf(lines) == RunsFrom(RecordsBeforeEOF(lines), 0, <<>>)
DataRuns(lines) == SelectSeq(RunsOf(lines), LAMBDA run : run.data # <<>>)

\* C36: in the blocks of an accepted Intel HEX file each block is the data
\* of a maximal run of address-contiguous consecutive records, and no block
\* starts at the address immediately after the end of the block produced
\* before it.  (SpecHex)
C36_BlocksAreMaximalRuns ==
    (flashFile.loadCalled /\ flashFile.loaded) =>
        LET blocks == flashFile.blocks
            runs == DataRuns(flashFile.input)
        IN  /\ \A i \in 1..Len(blocks) : \E j \in 1..Len(runs) : blocks[i] = runs[j]
            /\ \A i \in 1..(Len(blocks) - 1) :
                   <<0, blocks[i + 1].address[1], blocks[i + 1].address[2]>>
                       # Add64(blocks[i].address, Len(blocks[i].data))

\* C37: the blocks of an accepted Intel HEX file hold exactly the data of
\* the data records before the end-of-file record or the end of the input,
\* each byte at its record address: they are the runs of those records, and
\* none is missing when the input has no end-of-file record.  (SpecHex)
C37_NoRecordDropped ==
    (flashFile.loadCalled /\ flashFile.loaded) =>
        flashFile.blocks = DataRuns(flashFile.input)


\* C38: an updateConfiguration call that fails (the protocol is monitoring,
\* or the new baud rate is invalid) leaves the protocol as it was: as
\* initialized as before and with the previous configuration.  (SpecUpdate)
C38_FailedUpdateKeepsState ==
    [][\A b \in UpdateBauds :
          (CANProtocol_updateConfiguration(b) /\ ~updateConfiguration_result(b)) =>
              (canInitialized' = canInitialized /\ canBaud' = canBaud)]_vars


\* C39: for a 4-byte bitmap and a PID p in 1..32, isPIDSupported(bitmap, p)
\* is true exactly when p is among parseSupportedPIDs(bitmap, 0).  (SpecPIDs)
C39_SupportAgreesWithParse ==
    dtc.pc = "checked" =>
        (dtc.supported <=>
            \E k \in 1..Len(parseSupportedPIDs(dtc.bitmap, 0)) :
                parseSupportedPIDs(dtc.bitmap, 0)[k] = dtc.pid)


\* C40: a tester-present request with the suppress flag (sub-function 0x80)
\* that has been sent reports success although the ECU, as told, sends no
\* response; so isResponsive does not report a silent ECU as unresponsive.
\* (SpecTester)
C40_SuppressedTesterPresentSucceeds ==
    \A t \in AppThreads :
        (/\ ret[t].op = "tester"
         /\ ret[t].arg = 128
         /\ ret[t].kind \notin {"not_initialized", "send_failed"}) => ret[t].ok
====
